---- MODULE Spec2Model ----
(***************************************************************************)
(* A model of the VintedSniper core: the query-expansion and fuzzy         *)
(* matching helpers of fuzzy_matcher.py and the valuation engine of        *)
(* valuation_engine.py.                                                    *)
(*                                                                         *)
(* A Python str is a sequence of one-character strings; None, where a      *)
(* parameter is Optional[str], is the sequence None below.                 *)
(***************************************************************************)
EXTENDS Integers, Sequences, FiniteSets, TLC

VARIABLES
    pc,            \* position of the driver: which call is pending / has returned
    search_text,   \* _expand_search_text_variants: its argument
    hash_seed,     \* the process's string-hash seed (fixes set iteration order)
    variants,      \* _expand_search_text_variants: the returned list
    base_search_text,  \* find_best_fuzzy_match: the query's base phrase
    title,         \* find_best_fuzzy_match: the listing's title
    brand,         \* find_best_fuzzy_match: the listing's brand
    threshold,     \* find_best_fuzzy_match: the score a match must reach
    fuzzy_result,  \* find_best_fuzzy_match: <<>> for None, else <<the dict>>
    display_name,  \* encode_query_name: its first argument
    base_name,     \* encode_query_name: its second argument (the base search text)
    stored_name,   \* the value encode_query_name returned
    decoded_name,  \* decode_query_name(stored_name): <<display, base>>
    restored_name, \* encode_query_name of the decoded pair
    redecoded_name, \* decode_query_name(restored_name)
    listings,      \* _summarize: the comps it is given
    summary,       \* the MarketSummary _summarize returned (the sold summary)
    item_price,    \* _estimate_profit: the item's price
    item_currency, \* _estimate_profit: the item's currency
    profit,        \* _estimate_profit: the tuple (profit, currency, multiple)
    fuzzy_score,   \* _score_confidence: the fuzzy score or None
    confidence,    \* _score_confidence: the label
    operation,     \* the fetch called: "sold" (fetch_sold_comps) or "active"
    app_id,        \* EbayMarketDataFetcher.app_id
    fetch_query,   \* the fetch's query
    limit,         \* the fetch's limit
    api_response,  \* what session.get, raise_for_status and json() came to
    requests_sent, \* the HTTP requests issued, each by its parameters
    fetched_comps, \* the list the fetch returned
    raised,        \* the exception the fetch ended with, "" for none
    normalization, \* the NormalizationResult of ListingNormalizer.normalize
    fetcher,       \* ValuationEngine.fetcher: whether the engine has one
    sold_limit,    \* ValuationEngine.sold_limit
    active_limit,  \* ValuationEngine.active_limit
    fetch_calls,   \* the calls evaluate made to its fetcher, in order
    active_listings, \* evaluate: what fetch_active_listings returned
    active_summary, \* evaluate: the summary of the active listings or None
    db,            \* the stored queries: records of a query URL and its name
    query_url,     \* process_query: the query URL, as its parameters
    query_name,    \* process_query: the name argument
    ENABLE_VARIANTS, \* configuration_values.ENABLE_VARIANTS
    variant_queries, \* process_query: the processed URLs it considers
    db_before,     \* the stored queries when process_query was called
    is_query_in_db_calls,  \* the URLs process_query asked the store about, in order
    add_query_to_db_calls, \* the URL and name of each insertion, in order
    message,       \* process_query: the message returned
    is_new_query,  \* process_query: the flag returned
    process_calls, \* the number of calls of process_query so far
    items_queue,   \* the payloads put by process_items and not yet taken
    new_items_queue, \* the notifications put by clear_item_queue, in order
    item_store,    \* the ids of the items in the item store
    last_timestamps, \* the last timestamp of each query in the store
    add_item_sets_timestamp, \* whether db.add_item_to_db also sets the last timestamp
    scrapes,       \* the number of payloads put so far
    query_id,      \* clear_item_queue: the query of the payload
    allowed_countries, \* clear_item_queue: the allowlist read, or None
    payload_data,  \* clear_item_queue: the items the loop has yet to visit
    iteration,     \* clear_item_queue: what the last iteration of the loop did
    _valuation_engine, \* core._valuation_engine: the instance held, or None
    fetchers_constructed, \* the number of EbayMarketDataFetcher() calls
    engines_constructed,  \* the number of ValuationEngine(fetcher) calls
    engines_returned      \* the instances _get_valuation_engine has returned

expandVars == <<search_text, hash_seed, variants>>

matchVars == <<base_search_text, title, brand, threshold, fuzzy_result>>

nameVars ==
    <<display_name, base_name, stored_name, decoded_name, restored_name, redecoded_name>>

valuationVars ==
    <<listings, summary, item_price, item_currency, profit, fuzzy_score, confidence>>

fetchVars ==
    <<operation, app_id, fetch_query, limit, api_response, requests_sent, fetched_comps, raised>>

evaluateVars ==
    <<normalization, fetcher, sold_limit, active_limit, fetch_calls, active_listings,
      active_summary>>

processVars ==
    <<db, query_url, query_name, ENABLE_VARIANTS, variant_queries, db_before,
      is_query_in_db_calls, add_query_to_db_calls, message, is_new_query, process_calls>>

clearVars ==
    <<items_queue, new_items_queue, item_store, last_timestamps, add_item_sets_timestamp,
      scrapes, query_id, allowed_countries, payload_data, iteration>>

engineVars ==
    <<_valuation_engine, fetchers_constructed, engines_constructed, engines_returned>>

vars ==
    <<pc, expandVars, matchVars, nameVars, valuationVars, fetchVars, evaluateVars,
      processVars, clearVars, engineVars>>

(***************************************************************************)
(* Strings                                                                 *)
(***************************************************************************)

None == <<"<None>">>

Falsy(s) == s = None \/ s = <<>>

\* Code points of the characters the model uses (Python compares str by them).
CodePoint ==
    (" " :> 32) @@ ("&" :> 38) @@ ("'" :> 39) @@ ("-" :> 45) @@ ("K" :> 75) @@
    ("L" :> 76) @@ ("_" :> 95) @@
    ("a" :> 97) @@ ("b" :> 98) @@ ("c" :> 99) @@ ("d" :> 100) @@ ("e" :> 101) @@
    ("f" :> 102) @@ ("g" :> 103) @@ ("h" :> 104) @@ ("i" :> 105) @@ ("j" :> 106) @@
    ("k" :> 107) @@ ("l" :> 108) @@ ("m" :> 109) @@ ("n" :> 110) @@ ("o" :> 111) @@
    ("p" :> 112) @@ ("q" :> 113) @@ ("r" :> 114) @@ ("s" :> 115) @@ ("t" :> 116) @@
    ("u" :> 117) @@ ("v" :> 118) @@ ("w" :> 119) @@ ("x" :> 120) @@ ("y" :> 121) @@
    ("z" :> 122) @@ ("|" :> 124) @@ ("é" :> 233)

IsSpace(c) == c = " "

\* str < str
RECURSIVE StrLess(_, _)
StrLess(a, b) ==
    IF b = <<>> THEN FALSE
    ELSE IF a = <<>> THEN TRUE
    ELSE IF Head(a) = Head(b) THEN StrLess(Tail(a), Tail(b))
    ELSE CodePoint[Head(a)] < CodePoint[Head(b)]

RECURSIVE LStrip(_)
LStrip(s) == IF s # <<>> /\ IsSpace(Head(s)) THEN LStrip(Tail(s)) ELSE s

RECURSIVE RStrip(_)
RStrip(s) ==
    IF s # <<>> /\ IsSpace(s[Len(s)]) THEN RStrip(SubSeq(s, 1, Len(s) - 1)) ELSE s

\* str.strip()
Strip(s) == RStrip(LStrip(s))

\* str.lower()
LowerChar(c) == CASE c = "K" -> "k" [] c = "L" -> "l" [] OTHER -> c

Lower(s) == [i \in DOMAIN s |-> LowerChar(s[i])]

\* unidecode.unidecode: ASCII is kept, a non-ASCII character becomes its
\* ASCII transliteration.
Translit(c) == IF c = "é" THEN <<"e">> ELSE <<c>>

RECURSIVE unidecode(_)
unidecode(s) == IF s = <<>> THEN <<>> ELSE Translit(Head(s)) \o unidecode(Tail(s))

\* str.replace(old, " ") for a one-character old
ReplaceChar(s, old) == [i \in DOMAIN s |-> IF s[i] = old THEN " " ELSE s[i]]

\* str.split(): the maximal runs of non-whitespace characters
RECURSIVE SplitFrom(_, _)
SplitFrom(s, word) ==
    IF s = <<>> THEN (IF word = <<>> THEN <<>> ELSE <<word>>)
    ELSE IF IsSpace(Head(s))
         THEN (IF word = <<>> THEN <<>> ELSE <<word>>) \o SplitFrom(Tail(s), <<>>)
         ELSE SplitFrom(Tail(s), Append(word, Head(s)))

Split(s) == SplitFrom(s, <<>>)

\* " ".join(words)
RECURSIVE Join(_)
Join(words) ==
    IF words = <<>> THEN <<>>
    ELSE IF Len(words) = 1 THEN words[1]
    ELSE words[1] \o <<" ">> \o Join(Tail(words))

(***************************************************************************)
(* fuzzy_matcher.py                                                        *)
(***************************************************************************)

QUERY_NAME_DELIMITER == <<"|", "|">>

DEFAULT_FUZZY_THRESHOLD == 72

MAX_VARIANTS == 5

\* The dict in its insertion order.
WORD_SUBSTITUTIONS == <<
    [pattern |-> <<"p", "h">>, replacements |-> << <<"f">> >>],
    [pattern |-> <<"f">>,      replacements |-> << <<"p", "h">> >>],
    [pattern |-> <<"c", "k">>, replacements |-> << <<"k">>, <<"c">> >>],
    [pattern |-> <<"o", "o">>, replacements |-> << <<"u">>, <<"o">> >>],
    [pattern |-> <<"o", "u">>, replacements |-> << <<"u">>, <<"o">> >>],
    [pattern |-> <<"i", "e">>, replacements |-> << <<"e", "i">> >>],
    [pattern |-> <<"e", "i">>, replacements |-> << <<"i", "e">> >>],
    [pattern |-> <<"y">>,      replacements |-> << <<"i">> >>],
    [pattern |-> <<"i">>,      replacements |-> << <<"y">> >>],
    [pattern |-> <<"c">>,      replacements |-> << <<"k">>, <<"q">>, <<"s">> >>],
    [pattern |-> <<"k">>,      replacements |-> << <<"c">>, <<"q">> >>],
    [pattern |-> <<"q">>,      replacements |-> << <<"k">>, <<"c">> >>],
    [pattern |-> <<"v">>,      replacements |-> << <<"w">>, <<"b">> >>],
    [pattern |-> <<"w">>,      replacements |-> << <<"v">> >>],
    [pattern |-> <<"b">>,      replacements |-> << <<"v">> >>],
    [pattern |-> <<"m">>,      replacements |-> << <<"n">> >>],
    [pattern |-> <<"n">>,      replacements |-> << <<"m">> >>],
    [pattern |-> <<"l", "l">>, replacements |-> << <<"l">> >>],
    [pattern |-> <<"r", "r">>, replacements |-> << <<"r">> >>],
    [pattern |-> <<"s", "s">>, replacements |-> << <<"s">> >>],
    [pattern |-> <<"t", "t">>, replacements |-> << <<"t">> >>],
    [pattern |-> <<"p", "p">>, replacements |-> << <<"p">> >>],
    [pattern |-> <<"c", "h">>, replacements |-> << <<"s", "h">> >>],
    [pattern |-> <<"s", "h">>, replacements |-> << <<"c", "h">> >>],
    [pattern |-> <<"g", "h">>, replacements |-> << <<"g">> >>],
    [pattern |-> <<"g">>,      replacements |-> << <<"g", "h">>, <<"j">> >>],
    [pattern |-> <<"j">>,      replacements |-> << <<"g">> >> ] >>

_normalize_text(text) ==
    IF Falsy(text) THEN <<>>
    ELSE Join(Split(Lower(
             ReplaceChar(ReplaceChar(ReplaceChar(ReplaceChar(
                 unidecode(text), "-"), "_"), "&"), "'"))))

\* The set `variants` of _generate_word_variants, before it is listed.
WordVariantSet(word) ==
    LET n == Len(word)
        dedup == { SubSeq(word, 1, i - 1) \o SubSeq(word, i + 1, n) :
                       i \in { j \in 1..(n - 1) : word[j] = word[j + 1] } }
        swap == { SubSeq(word, 1, i - 1) \o <<word[i + 1], word[i]>> \o SubSeq(word, i + 2, n) :
                       i \in { j \in 1..(n - 1) : word[j] # word[j + 1] } }
        subst == UNION { UNION { { SubSeq(word, 1, found - 1) \o
                                     WORD_SUBSTITUTIONS[r].replacements[k] \o
                                     SubSeq(word, found + Len(WORD_SUBSTITUTIONS[r].pattern), n) :
                                   k \in DOMAIN WORD_SUBSTITUTIONS[r].replacements } :
                                 found \in { f \in 1..(n - Len(WORD_SUBSTITUTIONS[r].pattern) + 1) :
                                     SubSeq(word, f, f + Len(WORD_SUBSTITUTIONS[r].pattern) - 1)
                                         = WORD_SUBSTITUTIONS[r].pattern } } :
                         r \in DOMAIN WORD_SUBSTITUTIONS }
    IN  dedup \cup swap \cup subst

\* A str set's elements in ascending order.
RECURSIVE SortedStrs(_)
SortedStrs(S) ==
    IF S = {} THEN <<>>
    ELSE LET least == CHOOSE s \in S : \A t \in S \ {s} : StrLess(s, t)
         IN  <<least>> \o SortedStrs(S \ {least})

Reverse(seq) == [i \in DOMAIN seq |-> seq[Len(seq) + 1 - i]]

Rotate(seq, k) ==
    IF seq = <<>> THEN seq
    ELSE [i \in DOMAIN seq |-> seq[((i - 1 + k) % Len(seq)) + 1]]

\* Iterating a Python set of str: the order is fixed by the strings' hashes,
\* which the process's hash seed randomises. A seed picks one order: the
\* sorted list, rotated by seed \div 2 and reversed when the seed is odd.
SetIterationOrder(S, seed) ==
    LET rotated == Rotate(SortedStrs(S), seed \div 2)
    IN  IF seed % 2 = 1 THEN Reverse(rotated) ELSE rotated

_generate_word_variants(word, seed) ==
    IF word = <<>> THEN <<>>
    ELSE SetIterationOrder({ v \in WordVariantSet(word) : v # <<>> /\ v # word }, seed)

\* rapidfuzz.distance.Levenshtein.distance with unit weights: prev is the
\* row of the matrix for a's prefix before a[i].
RECURSIVE LevRow(_, _, _, _)
LevRow(c, b, prev, row) ==
    LET j == Len(row)
    IN  IF j > Len(b) THEN row
        ELSE LET cost == IF c = b[j] THEN 0 ELSE 1
                 best == IF prev[j + 1] + 1 < row[j] + 1 THEN prev[j + 1] + 1 ELSE row[j] + 1
                 cell == IF prev[j] + cost < best THEN prev[j] + cost ELSE best
             IN  LevRow(c, b, prev, Append(row, cell))

RECURSIVE LevRows(_, _, _, _)
LevRows(a, b, i, prev) ==
    IF i > Len(a) THEN prev[Len(b) + 1]
    ELSE LevRows(a, b, i + 1, LevRow(a[i], b, prev, <<i>>))

LevenshteinDistance(a, b) == LevRows(a, b, 1, [j \in 1..(Len(b) + 1) |-> j - 1])

\* add_variant without its `normalized_key in collected` test.
add_variant_unchecked(collected, value) ==
    LET normalized_key == _normalize_text(value)
    IN  IF normalized_key = <<>> THEN collected
        ELSE collected \cup {[key |-> normalized_key, value |-> Strip(value)]}

\* The dict `collected` is the set of its items; add_variant keeps the first
\* value stored under a key.
add_variant(collected, value) ==
    LET normalized_key == _normalize_text(value)
    IN  IF normalized_key = <<>> \/ (\E e \in collected : e.key = normalized_key)
        THEN collected
        ELSE collected \cup {[key |-> normalized_key, value |-> Strip(value)]}

limit_guard == MAX_VARIANTS * 3

\* The loop over the candidates of tokens[idx]; st.broke is the inner break.
RECURSIVE VisitCandidates(_, _, _, _, _)
VisitCandidates(candidates, tokens, idx, depth, st) ==
    IF candidates = <<>> \/ st.broke THEN st
    ELSE LET new_tokens == [tokens EXCEPT ![idx] = Head(candidates)]
             key == Join(new_tokens)
         IN  IF key \in st.seen_sequences
             THEN VisitCandidates(Tail(candidates), tokens, idx, depth, st)
             ELSE LET added == add_variant(st.collected, Join(new_tokens))
                      full == Cardinality(added) >= limit_guard
                  IN  VisitCandidates(Tail(candidates), tokens, idx, depth,
                          [queue |-> IF ~full /\ depth < 1
                                     THEN Append(st.queue, [tokens |-> new_tokens, depth |-> depth + 1])
                                     ELSE st.queue,
                           seen_sequences |-> st.seen_sequences \cup {key},
                           collected |-> added,
                           broke |-> full])

\* The loop over enumerate(tokens), left when collected has reached the guard.
RECURSIVE VisitTokens(_, _, _, _, _)
VisitTokens(tokens, idx, depth, seed, st) ==
    IF idx > Len(tokens) THEN st
    ELSE LET after == VisitCandidates(_generate_word_variants(tokens[idx], seed),
                                      tokens, idx, depth, [st EXCEPT !.broke = FALSE])
         IN  IF Cardinality(after.collected) >= limit_guard THEN after
             ELSE VisitTokens(tokens, idx + 1, depth, seed, after)

\* while queue: ...
RECURSIVE EditSearch(_, _)
EditSearch(seed, st) ==
    IF st.queue = <<>> THEN st
    ELSE LET entry == Head(st.queue)
             after == VisitTokens(entry.tokens, 1, entry.depth, seed,
                                  [st EXCEPT !.queue = Tail(st.queue)])
         IN  IF Cardinality(after.collected) >= limit_guard THEN after
             ELSE EditSearch(seed, after)

\* (distance, value) < (distance, value)
ScoredLess(a, b) ==
    a.distance < b.distance \/ (a.distance = b.distance /\ StrLess(a.value, b.value))

\* sorted(...) of a set of pairwise different (distance, value) items
RECURSIVE SortedScored(_)
SortedScored(S) ==
    IF S = {} THEN <<>>
    ELSE LET least == CHOOSE s \in S : \A t \in S \ {s} : ScoredLess(s, t)
         IN  <<least>> \o SortedScored(S \ {least})

\* The slice forgotten: the whole list is returned.
TakeAll(seq, n) == seq

\* seq[:n]
Take(seq, n) == SubSeq(seq, 1, IF Len(seq) < n THEN Len(seq) ELSE n)

\* The dict `collected` when the edit search is over.
CollectedVariants(text, seed) ==
    LET base == Strip(text)
        normalized_base == _normalize_text(base)
        seeds == add_variant(add_variant(add_variant({}, base), Lower(base)), unidecode(base))
        normalized_tokens == Split(normalized_base)
    IN  IF normalized_tokens = <<>> THEN seeds
        ELSE EditSearch(seed,
                 [queue |-> <<[tokens |-> normalized_tokens, depth |-> 0]>>,
                  seen_sequences |-> {Join(normalized_tokens)},
                  collected |-> seeds,
                  broke |-> FALSE]).collected

_expand_search_text_variants(text, seed) ==
    IF text = None THEN <<>>
    ELSE IF Strip(text) = <<>> THEN <<>>
    ELSE LET normalized_base == _normalize_text(Strip(text))
             scored_variants ==
                 SortedScored({ [distance |-> LevenshteinDistance(normalized_base, e.key),
                                 value |-> e.value] : e \in CollectedVariants(text, seed) })
         IN  Take([i \in DOMAIN scored_variants |-> scored_variants[i].value], MAX_VARIANTS)

\* str.replace(QUERY_NAME_DELIMITER, " "): occurrences are replaced from the
\* left and do not overlap.
RECURSIVE ReplaceDelimiter(_)
ReplaceDelimiter(s) ==
    IF Len(s) < Len(QUERY_NAME_DELIMITER) THEN s
    ELSE IF SubSeq(s, 1, Len(QUERY_NAME_DELIMITER)) = QUERY_NAME_DELIMITER
    THEN <<" ">> \o ReplaceDelimiter(SubSeq(s, Len(QUERY_NAME_DELIMITER) + 1, Len(s)))
    ELSE <<Head(s)>> \o ReplaceDelimiter(Tail(s))

\* str.strip(chars): the characters of `chars` are dropped from both ends.
RECURSIVE StripChars(_, _)
StripChars(s, chars) ==
    IF s # <<>> /\ Head(s) \in chars THEN StripChars(Tail(s), chars)
    ELSE IF s # <<>> /\ s[Len(s)] \in chars THEN StripChars(SubSeq(s, 1, Len(s) - 1), chars)
    ELSE s

\* str.find(QUERY_NAME_DELIMITER): the first index of the delimiter, 0 if none.
FindDelimiter(s) ==
    LET found == { i \in 1..(Len(s) - Len(QUERY_NAME_DELIMITER) + 1) :
                     SubSeq(s, i, i + Len(QUERY_NAME_DELIMITER) - 1) = QUERY_NAME_DELIMITER }
    IN  IF found = {} THEN 0 ELSE CHOOSE i \in found : \A j \in found : i <= j

\* value or "" followed by .strip().replace(QUERY_NAME_DELIMITER, " ")
CleanNamePart(value) == ReplaceDelimiter(Strip(IF Falsy(value) THEN <<>> ELSE value))

\* encode_query_name with `combined = display` for `combined = display or base`.
encode_query_name_no_fallback(display_name_, base_) ==
    LET display == CleanNamePart(display_name_)
        base == CleanNamePart(base_)
    IN  IF base # <<>>
        THEN StripChars(display \o QUERY_NAME_DELIMITER \o base,
                        { QUERY_NAME_DELIMITER[i] : i \in DOMAIN QUERY_NAME_DELIMITER })
        ELSE IF display # <<>> THEN display
        ELSE None

encode_query_name(display_name_, base_) ==
    LET display == CleanNamePart(display_name_)
        base == CleanNamePart(base_)
        combined == IF display # <<>> THEN display ELSE base
    IN  IF base # <<>>
        THEN StripChars(combined \o QUERY_NAME_DELIMITER \o base,
                        { QUERY_NAME_DELIMITER[i] : i \in DOMAIN QUERY_NAME_DELIMITER })
        ELSE IF display # <<>> THEN display
        ELSE None

\* value.strip() or None
StripOrNone(value) == IF Strip(value) = <<>> THEN None ELSE Strip(value)

decode_query_name(raw_value) ==
    IF Falsy(raw_value) THEN <<None, None>>
    ELSE LET at == FindDelimiter(raw_value)
         IN  IF at # 0
             THEN <<StripOrNone(SubSeq(raw_value, 1, at - 1)),
                    StripOrNone(SubSeq(raw_value, at + Len(QUERY_NAME_DELIMITER), Len(raw_value)))>>
             ELSE <<StripOrNone(raw_value), None>>

\* The pairs (key, value) of the dict `targets`, in insertion order.
RECURSIVE AddTokenTargets(_, _)
AddTokenTargets(tokens, targets) ==
    IF tokens = <<>> THEN targets
    ELSE LET token == Head(tokens)
         IN  AddTokenTargets(Tail(tokens),
                 IF Len(token) >= 4 /\ ~(\E i \in DOMAIN targets : targets[i].key = token)
                 THEN Append(targets, [key |-> token, target |-> token])
                 ELSE targets)

_build_fuzzy_targets(base) ==
    LET normalized_base == _normalize_text(base)
    IN  IF normalized_base = <<>> THEN <<>>
        ELSE AddTokenTargets(Split(normalized_base),
                 <<[key |-> normalized_base, target |-> Strip(base)]>>)

\* A score is the exact fraction num/den in lowest terms (rapidfuzz returns
\* its double).
RECURSIVE Gcd(_, _)
Gcd(a, b) == IF b = 0 THEN a ELSE Gcd(b, a % b)

Fraction(n, d) == LET g == Gcd(n, d) IN [num |-> n \div g, den |-> d \div g]

ScoreLess(a, b) == a.num * b.den < b.num * a.den

\* score < an integer
ScoreBelow(a, n) == a.num < n * a.den

ScoreMax(a, b) == IF ScoreLess(a, b) THEN b ELSE a

\* The length of a longest common subsequence, row by row.
RECURSIVE LcsRow(_, _, _, _)
LcsRow(c, b, prev, row) ==
    LET j == Len(row)
    IN  IF j > Len(b) THEN row
        ELSE LET cell == IF c = b[j] THEN prev[j] + 1
                         ELSE IF prev[j + 1] > row[j] THEN prev[j + 1] ELSE row[j]
             IN  LcsRow(c, b, prev, Append(row, cell))

RECURSIVE LcsRows(_, _, _, _)
LcsRows(a, b, i, prev) ==
    IF i > Len(a) THEN prev[Len(b) + 1]
    ELSE LcsRows(a, b, i + 1, LcsRow(a[i], b, prev, <<0>>))

\* rapidfuzz.distance.Indel.distance
IndelDistance(a, b) ==
    Len(a) + Len(b) - 2 * LcsRows(a, b, 1, [j \in 1..(Len(b) + 1) |-> 0])

\* rapidfuzz's normalized similarity 100 - 100 * dist / lensum
NormDistance(dist, lensum) ==
    IF lensum = 0 THEN Fraction(100, 1) ELSE Fraction(100 * (lensum - dist), lensum)

\* rapidfuzz.fuzz.token_set_ratio (processor=None)
token_set_ratio(s1, s2) ==
    LET tokens_a == { Split(s1)[i] : i \in DOMAIN Split(s1) }
        tokens_b == { Split(s2)[i] : i \in DOMAIN Split(s2) }
        intersect == tokens_a \cap tokens_b
        diff_ab == tokens_a \ tokens_b
        diff_ba == tokens_b \ tokens_a
        diff_ab_joined == Join(SortedStrs(diff_ab))
        diff_ba_joined == Join(SortedStrs(diff_ba))
        ab_len == Len(diff_ab_joined)
        ba_len == Len(diff_ba_joined)
        sect_len == Len(Join(SortedStrs(intersect)))
        gap == IF sect_len # 0 THEN 1 ELSE 0
        sect_ab_len == sect_len + gap + ab_len
        sect_ba_len == sect_len + gap + ba_len
        result == NormDistance(IndelDistance(diff_ab_joined, diff_ba_joined),
                               sect_ab_len + sect_ba_len)
        sect_ab_ratio == NormDistance(gap + ab_len, sect_len + sect_ab_len)
        sect_ba_ratio == NormDistance(gap + ba_len, sect_len + sect_ba_len)
    IN  IF tokens_a = {} \/ tokens_b = {} THEN Fraction(0, 1)
        ELSE IF intersect # {} /\ (diff_ab = {} \/ diff_ba = {}) THEN Fraction(100, 1)
        ELSE IF sect_len = 0 THEN result
        ELSE ScoreMax(ScoreMax(result, sect_ab_ratio), sect_ba_ratio)

\* rapidfuzz.process.extractOne(query, choices, scorer=token_set_ratio,
\* processor=None): the first choice of the highest score, <<>> for None.
RECURSIVE ExtractFrom(_, _, _, _)
ExtractFrom(query, targets, i, best) ==
    IF i > Len(targets) THEN best
    ELSE LET score == token_set_ratio(query, targets[i].key)
         IN  ExtractFrom(query, targets, i + 1,
                 IF best = <<>> \/ ScoreLess(best[1].score, score)
                 THEN <<[choice |-> i, score |-> score]>>
                 ELSE best)

extractOne(query, targets) == ExtractFrom(query, targets, 1, <<>>)

\* The loop body without its `score < threshold` test.
ConsiderAnyScore(best, source, candidate, targets, thresh) ==
    LET normalized_candidate == _normalize_text(candidate)
        match == extractOne(normalized_candidate, targets)
    IN  IF normalized_candidate = <<>> \/ match = <<>> THEN best
        ELSE IF best = <<>> \/ ScoreLess(best[1].score, match[1].score)
        THEN <<[score |-> match[1].score, source |-> source,
                target |-> targets[match[1].choice].target,
                source_text |-> Strip(candidate)]>>
        ELSE best

\* The loop body with `score >= best["score"]` for `score > best["score"]`.
ConsiderLaterOnTie(best, source, candidate, targets, thresh) ==
    LET normalized_candidate == _normalize_text(candidate)
        match == extractOne(normalized_candidate, targets)
    IN  IF normalized_candidate = <<>> \/ match = <<>> THEN best
        ELSE IF ScoreBelow(match[1].score, thresh) THEN best
        ELSE IF best = <<>> \/ ~ScoreLess(match[1].score, best[1].score)
        THEN <<[score |-> match[1].score, source |-> source,
                target |-> targets[match[1].choice].target,
                source_text |-> Strip(candidate)]>>
        ELSE best

\* One turn of the loop over ("title", title), ("brand", brand): the value of
\* `best` after it.
Consider(best, source, candidate, targets, thresh) ==
    LET normalized_candidate == _normalize_text(candidate)
        match == extractOne(normalized_candidate, targets)
    IN  IF normalized_candidate = <<>> \/ match = <<>> THEN best
        ELSE IF ScoreBelow(match[1].score, thresh) THEN best
        ELSE IF best = <<>> \/ ScoreLess(best[1].score, match[1].score)
        THEN <<[score |-> match[1].score, source |-> source,
                target |-> targets[match[1].choice].target,
                source_text |-> Strip(candidate)]>>
        ELSE best

find_best_fuzzy_match(base, title_, brand_, thresh) ==
    IF Falsy(base) THEN <<>>
    ELSE LET targets == _build_fuzzy_targets(base)
         IN  IF targets = <<>> THEN <<>>
             ELSE Consider(Consider(<<>>, "title", title_, targets, thresh),
                           "brand", brand_, targets, thresh)

(***************************************************************************)
(* valuation_engine.py                                                     *)
(*                                                                         *)
(* A Python value is a record of its type t and its content v: a float is  *)
(* the exact fraction it stands for, a str is its text, a list is the      *)
(* sequence of its elements and a dict the sequence of its <<key, value>>  *)
(* items in insertion order.                                               *)
(***************************************************************************)

PyNone == [t |-> "NoneType", v |-> 0]

PyFloat(n) == [t |-> "float", v |-> Fraction(n, 1)]

PyFraction(q) == [t |-> "float", v |-> q]

PyStr(text) == [t |-> "str", v |-> text]

PyList(elements) == [t |-> "list", v |-> elements]

PyDict(items) == [t |-> "dict", v |-> items]

\* bool(value)
Truthy(value) ==
    CASE value.t = "NoneType" -> FALSE
      [] value.t = "float" -> value.v.num # 0
      [] value.t = "str" -> value.v # ""
      [] OTHER -> value.v # <<>>

\* hash(value) succeeds
Hashable(value) == value.t \notin {"list", "dict"}

FractionSub(a, b) == Fraction(a.num * b.den - b.num * a.den, a.den * b.den)

FractionDiv(a, b) ==
    IF b.num > 0 THEN Fraction(a.num * b.den, a.den * b.num)
    ELSE Fraction(0 - a.num * b.den, a.den * (0 - b.num))

\* ListingComp(title, price, currency, url, image, source)
ListingComp(price, currency, source) ==
    [title |-> PyStr(""), price |-> price, currency |-> currency,
     url |-> PyNone, image |-> PyNone, source |-> source]

\* MarketSummary(source=source): every other field at its default
EmptySummary(source) ==
    [minimum |-> PyNone, maximum |-> PyNone, median |-> PyNone, currency |-> PyNone,
     sample_size |-> 0, source |-> source, prices |-> <<>>]

\* The list left as it is.
Unsorted(prices) == prices

\* sorted(prices) of a list of floats
RECURSIVE SortedFloats(_)
SortedFloats(prices) ==
    IF prices = <<>> THEN <<>>
    ELSE LET least == CHOOSE i \in DOMAIN prices :
                          \A j \in DOMAIN prices : ~ScoreLess(prices[j], prices[i])
         IN  <<prices[least]>> \o
             SortedFloats([k \in 1..(Len(prices) - 1) |->
                              IF k < least THEN prices[k] ELSE prices[k + 1]])

\* statistics.median of a sorted list that is not empty
Median(sorted) ==
    LET n == Len(sorted)
    IN  IF n % 2 = 1 THEN sorted[(n + 1) \div 2]
        ELSE Fraction(sorted[n \div 2].num * sorted[n \div 2 + 1].den
                          + sorted[n \div 2 + 1].num * sorted[n \div 2].den,
                      2 * sorted[n \div 2].den * sorted[n \div 2 + 1].den)

\* currency_groups.setdefault(currency, []).append(price): the dict's items in
\* insertion order
AppendToGroup(groups, currency, price) ==
    IF \E g \in DOMAIN groups : groups[g].currency = currency
    THEN [g \in DOMAIN groups |->
             IF groups[g].currency = currency
             THEN [groups[g] EXCEPT !.prices = Append(@, price)]
             ELSE groups[g]]
    ELSE Append(groups, [currency |-> currency, prices |-> <<price>>])

\* The loop that fills currency_groups; raised is the TypeError of a currency
\* that cannot be hashed.
RECURSIVE GroupByCurrency(_, _)
GroupByCurrency(remaining, groups) ==
    IF remaining = <<>> THEN [raised |-> "", groups |-> groups]
    ELSE LET listing == Head(remaining)
         IN  IF listing.price = PyNone \/ listing.currency = PyNone
             THEN GroupByCurrency(Tail(remaining), groups)
             ELSE IF ~Hashable(listing.currency)
             THEN [raised |-> "TypeError", groups |-> groups]
             ELSE GroupByCurrency(Tail(remaining),
                      AppendToGroup(groups, listing.currency, listing.price.v))

\* max(..., key=len) taking the last of the largest groups.
LastLargestGroup(groups) ==
    groups[CHOOSE g \in DOMAIN groups :
               /\ \A h \in DOMAIN groups : Len(groups[h].prices) <= Len(groups[g].prices)
               /\ \A h \in DOMAIN groups :
                      Len(groups[h].prices) = Len(groups[g].prices) => h <= g]

\* max(currency_groups.items(), key=lambda item: len(item[1])): the first of
\* the largest groups
LargestGroup(groups) ==
    groups[CHOOSE g \in DOMAIN groups :
               /\ \A h \in DOMAIN groups : Len(groups[h].prices) <= Len(groups[g].prices)
               /\ \A h \in DOMAIN groups :
                      Len(groups[h].prices) = Len(groups[g].prices) => g <= h]

\* _summarize: raised names the exception it ends with, "" when it returns.
_summarize(listings_, default_source) ==
    IF listings_ = <<>> THEN [raised |-> "", summary |-> EmptySummary(default_source)]
    ELSE LET grouped == GroupByCurrency(listings_, <<>>)
         IN  IF grouped.raised # ""
             THEN [raised |-> grouped.raised, summary |-> EmptySummary(default_source)]
             ELSE IF grouped.groups = <<>>
             THEN [raised |-> "", summary |-> EmptySummary(default_source)]
             ELSE LET group == LargestGroup(grouped.groups)
                      sorted_prices == SortedFloats(group.prices)
                  IN  [raised |-> "",
                       summary |->
                           [minimum |-> PyFraction(sorted_prices[1]),
                            maximum |-> PyFraction(sorted_prices[Len(sorted_prices)]),
                            median |-> PyFraction(Median(sorted_prices)),
                            currency |-> group.currency,
                            sample_size |-> Len(sorted_prices),
                            source |-> default_source,
                            prices |-> sorted_prices]]

\* The currency guard left out: the profit is computed whatever the currencies.
_estimate_profit_any_currency(summary_, item_price_, item_currency_) ==
    IF summary_.sample_size = 0 \/ summary_.median = PyNone
    THEN <<PyNone, PyNone, PyNone>>
    ELSE <<PyFraction(FractionSub(summary_.median.v, item_price_)),
           IF Truthy(summary_.currency) THEN summary_.currency ELSE item_currency_,
           IF item_price_.num > 0
           THEN PyFraction(FractionDiv(summary_.median.v, item_price_))
           ELSE PyNone>>

\* _estimate_profit: the tuple (profit, currency, multiple)
_estimate_profit(summary_, item_price_, item_currency_) ==
    IF summary_.sample_size = 0 \/ summary_.median = PyNone
    THEN <<PyNone, PyNone, PyNone>>
    ELSE IF Truthy(summary_.currency) /\ summary_.currency # item_currency_
    THEN <<PyNone, summary_.currency, PyNone>>
    ELSE <<PyFraction(FractionSub(summary_.median.v, item_price_)),
           IF Truthy(summary_.currency) THEN summary_.currency ELSE item_currency_,
           IF item_price_.num > 0
           THEN PyFraction(FractionDiv(summary_.median.v, item_price_))
           ELSE PyNone>>

\* ValuationEngine.__init__: low_variance_threshold = 0.35
low_variance_threshold == Fraction(35, 100)

FractionAdd(a, b) == Fraction(a.num * b.den + b.num * a.den, a.den * b.den)

FractionMul(a, b) == Fraction(a.num * b.num, a.den * b.den)

RECURSIVE FractionSum(_)
FractionSum(values) ==
    IF values = <<>> THEN Fraction(0, 1)
    ELSE FractionAdd(Head(values), FractionSum(Tail(values)))

\* statistics.pstdev squared: the population variance
Pvariance(prices) ==
    LET mean == FractionMul(FractionSum(prices), Fraction(1, Len(prices)))
        squares == [i \in DOMAIN prices |->
                       FractionMul(FractionSub(prices[i], mean), FractionSub(prices[i], mean))]
    IN  FractionMul(FractionSum(squares), Fraction(1, Len(prices)))

\* Every list of prices has a low variance.
_has_low_variance_always(prices) == TRUE

\* _has_low_variance: deviation / med <= threshold, compared through the
\* squares of both sides, neither of which is negative
_has_low_variance(prices) ==
    IF Len(prices) < 2 THEN TRUE
    ELSE LET med == Median(SortedFloats(prices))
         IN  IF med.num <= 0 THEN FALSE
             ELSE IF Pvariance(prices).num = 0 THEN TRUE
             ELSE ~ScoreLess(FractionMul(low_variance_threshold, low_variance_threshold),
                             FractionDiv(Pvariance(prices), FractionMul(med, med)))

\* The label with Low for fewer than five comps.
_score_confidence_from_five(fuzzy_score_, summary_) ==
    LET comps == summary_.sample_size
        score == IF Truthy(fuzzy_score_) THEN fuzzy_score_.v ELSE Fraction(0, 1)
    IN  IF comps < 5 THEN "Low"
        ELSE IF /\ ~ScoreLess(score, Fraction(90, 1))
                /\ comps >= 8
                /\ _has_low_variance(summary_.prices)
        THEN "High"
        ELSE "Medium"

\* _score_confidence: the label of the tuple (label, icon)
_score_confidence(fuzzy_score_, summary_) ==
    LET comps == summary_.sample_size
        score == IF Truthy(fuzzy_score_) THEN fuzzy_score_.v ELSE Fraction(0, 1)
    IN  IF comps < 4 THEN "Low"
        ELSE IF /\ ~ScoreLess(score, Fraction(90, 1))
                /\ comps >= 8
                /\ _has_low_variance(summary_.prices)
        THEN "High"
        ELSE IF \/ ~ScoreLess(score, Fraction(82, 1)) /\ ScoreLess(score, Fraction(90, 1))
                \/ 4 <= comps /\ comps <= 7
        THEN "Medium"
        ELSE IF comps >= 8 THEN "Medium"
        ELSE "Low"

(***************************************************************************)
(* EbayMarketDataFetcher                                                   *)
(*                                                                         *)
(* An expression of the code either has a value or raises: raised names    *)
(* the exception, "" for none.                                             *)
(***************************************************************************)

Ok(value) == [raised |-> "", value |-> value]

Raise(exception) == [raised |-> exception, value |-> PyNone]

\* The next expression, evaluated unless the one before it raised.
Then(result, Next_(_)) == IF result.raised = "" THEN Next_(result.value) ELSE result

\* The characters of the texts of the responses that have none or several.
Characters ==
    [text \in {"", "10", "25", "EUR", "USD", "Active", "EndedWithSales"} |->
        CASE text = "" -> <<>>
          [] text = "10" -> <<"1", "0">>
          [] text = "25" -> <<"2", "5">>
          [] text = "EUR" -> <<"E", "U", "R">>
          [] text = "USD" -> <<"U", "S", "D">>
          [] text = "Active" -> <<"A", "c", "t", "i", "v", "e">>
          [] text = "EndedWithSales" ->
                 <<"E", "n", "d", "e", "d", "W", "i", "t", "h", "S", "a", "l", "e", "s">>]

\* A text of one character is that character.
CharactersOf(text) == IF text \in DOMAIN Characters THEN Characters[text] ELSE <<text>>

\* dict lookup: the items with this key
ItemsAt(dict, key) == { i \in DOMAIN dict.v : dict.v[i][1] = key }

\* value[0]
First(value) ==
    CASE value.t = "list" ->
             IF value.v = <<>> THEN Raise("IndexError") ELSE Ok(value.v[1])
      [] value.t = "str" ->
             IF CharactersOf(value.v) = <<>> THEN Raise("IndexError")
             ELSE Ok(PyStr(CharactersOf(value.v)[1]))
      [] value.t = "dict" -> Raise("KeyError")
      [] OTHER -> Raise("TypeError")

\* value[key] for a key that is a str
Subscript(value, key) ==
    CASE value.t = "dict" ->
             IF ItemsAt(value, key) = {} THEN Raise("KeyError")
             ELSE Ok(value.v[CHOOSE i \in ItemsAt(value, key) : TRUE][2])
      [] OTHER -> Raise("TypeError")

\* value.get(key, default)
Get(value, key, default) ==
    IF value.t # "dict" THEN Raise("AttributeError")
    ELSE IF ItemsAt(value, key) = {} THEN Ok(default)
    ELSE Ok(value.v[CHOOSE i \in ItemsAt(value, key) : TRUE][2])

\* iter(value): the sequence a for loop runs over
Iterate(value) ==
    CASE value.t = "list" -> Ok(PyList(value.v))
      [] value.t = "dict" -> Ok(PyList([i \in DOMAIN value.v |-> PyStr(value.v[i][1])]))
      [] value.t = "str" ->
             Ok(PyList([i \in DOMAIN CharactersOf(value.v) |-> PyStr(CharactersOf(value.v)[i])]))
      [] OTHER -> Raise("TypeError")

\* float(value)
ToFloat(value) ==
    CASE value.t = "float" -> Ok(value)
      [] value.t = "str" ->
             IF value.v = "10" THEN Ok(PyFloat(10))
             ELSE IF value.v = "25" THEN Ok(PyFloat(25))
             ELSE Raise("ValueError")
      [] OTHER -> Raise("TypeError")

\* str(n): the decimal digits of an integer
RECURSIVE Str(_)
Str(n) ==
    IF n < 0 THEN <<"-">> \o Str(0 - n)
    ELSE IF n < 10 THEN <<<<"0", "1", "2", "3", "4", "5", "6", "7", "8", "9">>[n + 1]>>
    ELSE Str(n \div 10) \o Str(n % 10)

\* The limit sent as it is.
PageSizeUnclamped(limit_) == limit_

\* max(1, min(limit, 100))
PageSize(limit_) ==
    LET least == IF limit_ < 100 THEN limit_ ELSE 100
    IN  IF least > 1 THEN least ELSE 1

\* _perform_request: the parsed body, or {} after a RequestException (no
\* connection, an HTTP error status) or a ValueError (a body that is no JSON)
_perform_request(response) ==
    IF response.kind = "json" THEN response.body ELSE PyDict(<<>>)

\* _extract_items: the value under "item", [] after a KeyError, an IndexError
\* or a TypeError
_extract_items(data, root_key) ==
    LET response == Then(Subscript(data, root_key), First)
        search_result ==
            Then(Then(response, LAMBDA r : Get(r, "searchResult", PyList(<<PyDict(<<>>)>>))),
                 First)
        items == Then(search_result, LAMBDA r : Get(r, "item", PyList(<<>>)))
    IN  IF items.raised \in {"KeyError", "IndexError", "TypeError"} THEN Ok(PyList(<<>>))
        ELSE items

\* _extract_price: the pair (price, currency)
_extract_price(price_info) ==
    IF ~Truthy(price_info) THEN Ok([price |-> PyNone, currency |-> PyNone])
    ELSE LET first == First(price_info)
         IN  IF first.raised \notin {"", "IndexError", "TypeError"} THEN Raise(first.raised)
             ELSE LET info == IF first.raised = "" THEN first.value ELSE price_info
                      value == IF Get(info, "__value__", PyNone).raised = "AttributeError"
                               THEN PyNone
                               ELSE Get(info, "__value__", PyNone).value
                      currency == IF Get(info, "@currencyId", PyNone).raised = "AttributeError"
                                  THEN PyNone
                                  ELSE Get(info, "@currencyId", PyNone).value
                  IN  IF value = PyNone THEN Ok([price |-> PyNone, currency |-> currency])
                      ELSE IF ToFloat(value).raised \in {"TypeError", "ValueError"}
                      THEN Ok([price |-> PyNone, currency |-> currency])
                      ELSE Ok([price |-> ToFloat(value).value, currency |-> currency])

\* selling_status.get("convertedCurrentPrice") or selling_status.get("currentPrice")
PriceInfo(selling_status) ==
    LET converted == Get(selling_status, "convertedCurrentPrice", PyNone)
    IN  IF converted.raised = "" /\ ~Truthy(converted.value)
        THEN Get(selling_status, "currentPrice", PyNone)
        ELSE converted

\* ListingComp(title=item.get("title", [""])[0], ...): the list of this one comp
BuildComp(item, price, source) ==
    LET title_ == Then(Get(item, "title", PyList(<<PyStr("")>>)), First)
        url == Then(Get(item, "viewItemURL", PyList(<<PyNone>>)), First)
        image == Then(Get(item, "galleryURL", PyList(<<PyNone>>)), First)
    IN  IF title_.raised # "" THEN title_
        ELSE IF url.raised # "" THEN url
        ELSE IF image.raised # "" THEN image
        ELSE Ok(<<[ListingComp(price.price, price.currency, source)
                      EXCEPT !.title = title_.value, !.url = url.value, !.image = image.value]>>)

\* The body of the loop of fetch_sold_comps without the test of the state.
SoldCompOfAnyState(item) ==
    LET selling_status == Then(Get(item, "sellingStatus", PyList(<<PyDict(<<>>)>>)), First)
        price == Then(Then(selling_status, PriceInfo), _extract_price)
        state == Then(Then(selling_status, LAMBDA s : Get(s, "sellingState", PyList(<<PyStr("")>>))),
                      First)
    IN  IF price.raised # "" THEN price
        ELSE IF state.raised # "" THEN state
        ELSE BuildComp(item, price.value, "eBay sold")

\* The body of the loop of fetch_sold_comps: the comps it appends for one item
SoldComp(item) ==
    LET selling_status == Then(Get(item, "sellingStatus", PyList(<<PyDict(<<>>)>>)), First)
        price == Then(Then(selling_status, PriceInfo), _extract_price)
        state == Then(Then(selling_status, LAMBDA s : Get(s, "sellingState", PyList(<<PyStr("")>>))),
                      First)
    IN  IF price.raised # "" THEN price
        ELSE IF state.raised # "" THEN state
        ELSE IF Truthy(state.value) /\ state.value # PyStr("EndedWithSales") THEN Ok(<<>>)
        ELSE BuildComp(item, price.value, "eBay sold")

\* The body of the loop of fetch_active_listings
ActiveListing(item) ==
    LET selling_status == Then(Get(item, "sellingStatus", PyList(<<PyDict(<<>>)>>)), First)
        price == Then(Then(selling_status, PriceInfo), _extract_price)
    IN  IF price.raised # "" THEN price
        ELSE BuildComp(item, price.value, "eBay active")

\* for item in items: the comps appended, or the exception that ends the loop
RECURSIVE CompsOf(_, _, _)
CompsOf(items, operation_, found) ==
    IF items = <<>> THEN Ok(found)
    ELSE LET comp == IF operation_ = "sold" THEN SoldComp(Head(items))
                     ELSE ActiveListing(Head(items))
         IN  IF comp.raised # "" THEN comp
             ELSE CompsOf(Tail(items), operation_, found \o comp.value)

\* The root key of the response of each fetch.
RootKey(operation_) ==
    IF operation_ = "sold" THEN "findCompletedItemsResponse" ELSE "findItemsAdvancedResponse"

\* fetch_sold_comps and fetch_active_listings from data = _perform_request(params) on
HandleResponse(operation_, response) ==
    LET items == Then(_extract_items(_perform_request(response), RootKey(operation_)), Iterate)
    IN  IF items.raised # "" THEN items
        ELSE CompsOf(items.value.v, operation_, <<>>)

\* params: the operation, the keywords and the page size, the rest being fixed
RequestParams(operation_, query_, limit_) ==
    [operation |-> IF operation_ = "sold" THEN "findCompletedItems" ELSE "findItemsAdvanced",
     keywords |-> query_,
     entriesPerPage |-> Str(PageSize(limit_))]

(***************************************************************************)
(* ListingNormalizer                                                       *)
(***************************************************************************)

\* ListingNormalizer._clean
_clean(value) ==
    IF Falsy(value) THEN <<>>
    ELSE Strip(Join(Split(ReplaceChar(ReplaceChar(unidecode(value), "-"), "_"))))

\* The loop that removes duplicates comparing the parts as they are written.
RECURSIVE CanonicalPartsExact(_, _)
CanonicalPartsExact(parts, seen) ==
    IF parts = <<>> THEN <<>>
    ELSE IF Head(parts) \in seen THEN CanonicalPartsExact(Tail(parts), seen)
    ELSE <<Head(parts)>> \o CanonicalPartsExact(Tail(parts), seen \cup {Head(parts)})

\* The loop that removes duplicates: the parts whose lower case was not seen
RECURSIVE CanonicalParts(_, _)
CanonicalParts(parts, seen) ==
    IF parts = <<>> THEN <<>>
    ELSE IF Lower(Head(parts)) \in seen THEN CanonicalParts(Tail(parts), seen)
    ELSE <<Head(parts)>> \o CanonicalParts(Tail(parts), seen \cup {Lower(Head(parts))})

\* The quality of a score: every score under 90 is likely.
MatchQualityWide(fuzzy_score_, fuzzy_term) ==
    IF fuzzy_score_ # PyNone
    THEN IF fuzzy_score_.v.num >= 90 * fuzzy_score_.v.den THEN "canonical" ELSE "likely"
    ELSE IF ~Falsy(fuzzy_term) THEN "approximate"
    ELSE "unknown"

\* normalize: match_quality
MatchQuality(fuzzy_score_, fuzzy_term) ==
    IF fuzzy_score_ # PyNone
    THEN IF fuzzy_score_.v.num >= 90 * fuzzy_score_.v.den THEN "canonical"
         ELSE IF /\ 82 * fuzzy_score_.v.den <= fuzzy_score_.v.num
                 /\ fuzzy_score_.v.num <= 89 * fuzzy_score_.v.den
         THEN "likely"
         ELSE "approximate"
    ELSE IF ~Falsy(fuzzy_term) THEN "approximate"
    ELSE "unknown"

\* ListingNormalizer.normalize; fuzzy_result_ is <<>> for None or an empty
\* dict and else <<dict>>, a key that the dict lacks having the value None
normalize(title_, brand_, base_search_text_, fuzzy_result_) ==
    LET cleaned_title == _clean(title_)
        cleaned_brand == _clean(brand_)
        target == IF fuzzy_result_ = <<>> THEN None ELSE fuzzy_result_[1].target
        result_term == IF Falsy(target) THEN None ELSE StripOrNone(target)
        fuzzy_score_ ==
            IF fuzzy_result_ = <<>> THEN PyNone
            ELSE IF ToFloat(fuzzy_result_[1].score).raised \in {"TypeError", "ValueError"}
            THEN PyNone
            ELSE ToFloat(fuzzy_result_[1].score).value
        fuzzy_term ==
            IF Falsy(result_term) /\ ~Falsy(base_search_text_)
            THEN StripOrNone(base_search_text_)
            ELSE result_term
        parts ==
            (IF ~Falsy(brand_) /\ Strip(brand_) # <<>> THEN <<Strip(brand_)>> ELSE <<>>)
            \o (IF ~Falsy(fuzzy_term) THEN <<fuzzy_term>>
                ELSE IF ~Falsy(title_) THEN <<Strip(title_)>>
                ELSE <<>>)
    IN  [title |-> IF cleaned_title # <<>> THEN cleaned_title
                   ELSE IF Falsy(title_) THEN <<>> ELSE title_,
         brand |-> IF cleaned_brand # <<>> THEN cleaned_brand
                   ELSE IF Falsy(brand_) THEN None ELSE brand_,
         canonical_query |-> Strip(Join(CanonicalParts(parts, {}))),
         fuzzy_term |-> fuzzy_term,
         fuzzy_score |-> fuzzy_score_,
         match_quality |-> MatchQuality(fuzzy_score_, fuzzy_term)]

(***************************************************************************)
(* ValuationEngine.evaluate                                                *)
(***************************************************************************)

\* EbayMarketDataFetcher.CURRENCY_TO_GLOBAL_ID
CURRENCY_TO_GLOBAL_ID ==
    [currency \in {"EUR", "USD", "GBP", "CAD", "AUD", "CHF"} |->
        CASE currency = "EUR" -> "EBAY-DE"
          [] currency = "USD" -> "EBAY-US"
          [] currency = "GBP" -> "EBAY-GB"
          [] currency = "CAD" -> "EBAY-ENCA"
          [] currency = "AUD" -> "EBAY-AU"
          [] currency = "CHF" -> "EBAY-CH"]

\* EbayMarketDataFetcher.__init__: default_global_id with no argument and no
\* EBAY_GLOBAL_ID in the environment
default_global_id == "EBAY-DE"

\* EbayMarketDataFetcher.pick_global_id
pick_global_id(currency) ==
    IF Truthy(currency) /\ currency.t = "str" /\ currency.v \in DOMAIN CURRENCY_TO_GLOBAL_ID
    THEN CURRENCY_TO_GLOBAL_ID[currency.v]
    ELSE default_global_id

\* The fetches made whatever the canonical query.
ShouldFetchAnyQuery(fetcher_, canonical_query) == fetcher_

\* evaluate: if self.fetcher and normalization.canonical_query
ShouldFetch(fetcher_, canonical_query) == fetcher_ /\ canonical_query # <<>>

\* One call of a fetch by evaluate, on the response its request gets: the
\* request it sends, if any, and the comps it returns or the exception.
FetchCall(operation_, app_id_, query_, limit_, response) ==
    IF ~Truthy(app_id_) \/ query_ = <<>>
    THEN [requests |-> <<>>, raised |-> "", value |-> <<>>]
    ELSE [requests |-> <<RequestParams(operation_, query_, limit_)>>,
          raised |-> HandleResponse(operation_, response).raised,
          value |-> IF HandleResponse(operation_, response).raised = ""
                    THEN HandleResponse(operation_, response).value
                    ELSE <<>>]

\* The argument list of a fetch as evaluate calls it.
FetchArguments(operation_, canonical_query, limit_, currency) ==
    [fetch |-> operation_, query |-> canonical_query, limit |-> limit_,
     global_id |-> pick_global_id(currency)]

(***************************************************************************)
(* core.process_query                                                      *)
(***************************************************************************)

\* A query URL is the record of its parameters search_text and page, None
\* for a parameter it lacks; the scheme, host and path are the same in all.
NoQuery == [search_text |-> None, page |-> None]

\* parse_qs and query_params.get('search_text'): a parameter with an empty
\* value is left out, and an empty or missing search_text gives None
BaseSearchTextOf(query_) ==
    IF Falsy(query_.search_text) THEN None ELSE query_.search_text

\* build_processed_query: the URL of the parameters, in which the order is
\* newest_first and page is removed; params is the search_text or None
build_processed_query(params) == [search_text |-> params, order |-> "newest_first"]

\* db.is_query_in_db
is_query_in_db(db_, processed_query) == \E entry \in db_ : entry.query = processed_query

\* db.add_query_to_db
add_query_to_db(db_, processed_query, name_) ==
    db_ \cup {[query |-> processed_query, name |-> name_]}

\* process_query: variant_queries
VariantQueries(base_search_text_, enable_variants, expanded_terms) ==
    IF ~Falsy(base_search_text_) /\ enable_variants
    THEN [i \in DOMAIN expanded_terms |-> build_processed_query(expanded_terms[i])]
    ELSE <<build_processed_query(base_search_text_)>>

\* The loop over variant_queries that adds every URL without asking the
\* store about it.
RECURSIVE AddQueriesUnchecked(_, _, _)
AddQueriesUnchecked(queries, stored_name_, done) ==
    IF queries = <<>> THEN done
    ELSE AddQueriesUnchecked(Tail(queries), stored_name_,
             [db |-> add_query_to_db(done.db, Head(queries), stored_name_),
              checked |-> Append(done.checked, Head(queries)),
              added |-> Append(done.added, <<Head(queries), stored_name_>>)])

\* process_query: the loop over variant_queries; done holds the store, the
\* URLs checked and the insertions made so far
RECURSIVE AddNewQueries(_, _, _)
AddNewQueries(queries, stored_name_, done) ==
    IF queries = <<>> THEN done
    ELSE AddNewQueries(Tail(queries), stored_name_,
             IF is_query_in_db(done.db, Head(queries))
             THEN [done EXCEPT !.checked = Append(@, Head(queries))]
             ELSE [db |-> add_query_to_db(done.db, Head(queries), stored_name_),
                   checked |-> Append(done.checked, Head(queries)),
                   added |-> Append(done.added, <<Head(queries), stored_name_>>)])

\* process_query: the message returned
Message(added_count, considered) ==
    IF added_count = 0 THEN <<"Query already exists.">>
    ELSE IF considered = 1 THEN <<"Query added.">>
    ELSE <<"Added ">> \o Str(added_count) \o <<" queries (">> \o Str(considered)
             \o <<" variants considered).">>

(***************************************************************************)
(* Inputs                                                                  *)
(***************************************************************************)

\* All strings over `alphabet` of length at most n.
RECURSIVE StringsUpTo(_, _)
StringsUpTo(alphabet, n) ==
    IF n = 0 THEN {<<>>}
    ELSE LET shorter == StringsUpTo(alphabet, n - 1)
         IN  shorter \cup { Append(s, c) : s \in { t \in shorter : Len(t) = n - 1 }, c \in alphabet }

MaxPhraseLen == 3

MaxHashSeed == 1

PhraseAlphabet == {" ", "-", "K", "k", "o", "é"}

Luminarc == <<"l", "u", "m", "i", "n", "a", "r", "c">>

SearchTexts == StringsUpTo(PhraseAlphabet, MaxPhraseLen) \cup {Luminarc, None}

HashSeeds == 0..MaxHashSeed

\* The words the matcher's phrases are made of: a word, a misspelling of it
\* in another case, and a word too short to be a target of its own.
MatchWords == { <<"l", "i", "m", "o">>, <<"L", "y", "m", "o">>, <<"a", "r", "t">> }

\* The phrases of at most n words, joined by single spaces.
RECURSIVE PhrasesUpTo(_, _)
PhrasesUpTo(words, n) ==
    IF n = 0 THEN {<<>>}
    ELSE PhrasesUpTo(words, n - 1) \cup words \cup
         { p \o <<" ">> \o w : p \in PhrasesUpTo(words, n - 1) \ {<<>>}, w \in words }

MaxBaseWords == 2

MaxTitleWords == 2

LimogesPorcelain ==
    <<"l", "i", "m", "o", "g", "e", "s", " ", "p", "o", "r", "c", "e", "l", "a", "i", "n">>

LimogesPlate == <<"L", "i", "m", "o", "g", "e", "s", " ", "p", "l", "a", "t", "e">>

BaseTexts == PhrasesUpTo(MatchWords, MaxBaseWords) \cup {None, <<"-">>, LimogesPorcelain}

Titles == PhrasesUpTo(MatchWords, MaxTitleWords) \cup {None, LimogesPlate}

Brands == MatchWords \cup {None, <<>>}

Thresholds == {0, DEFAULT_FUZZY_THRESHOLD, 76, 100}

MaxNameLen == 3

NameAlphabet == {"a", "b", "|", " "}

DisplayNames == StringsUpTo(NameAlphabet, MaxNameLen) \cup {None}

BaseNames == StringsUpTo(NameAlphabet, MaxNameLen) \cup {None}

MaxComps == 4

\* The comps a fetch can return: priced in EUR, in USD, with an empty
\* currency id, with a currency id that is a list, without a price and
\* without a currency.
CompKinds ==
    { ListingComp(PyFloat(p), PyStr(c), "eBay sold") : p \in {10, 20, 40}, c \in {"EUR"} }
    \cup { ListingComp(PyFloat(p), PyStr("USD"), "eBay sold") : p \in {10, 20} }
    \cup { ListingComp(PyFloat(20), PyStr(""), "eBay sold"),
           ListingComp(PyFloat(10), PyList(<<PyStr("EUR")>>), "eBay sold"),
           ListingComp(PyNone, PyStr("USD"), "eBay sold"),
           ListingComp(PyFloat(10), PyNone, "eBay sold") }

RECURSIVE ListsUpTo(_, _)
ListsUpTo(elements, n) ==
    IF n = 0 THEN {<<>>}
    ELSE LET shorter == ListsUpTo(elements, n - 1)
         IN  shorter \cup { Append(l, x) : l \in { m \in shorter : Len(m) = n - 1 }, x \in elements }

CompLists == ListsUpTo(CompKinds, MaxComps)

MaxProfitComps == 3

\* The sold comps of the profit estimates: in EUR, in USD, with an empty
\* currency id and without a price.
ProfitCompKinds ==
    { ListingComp(PyFloat(10), PyStr("EUR"), "eBay sold"),
      ListingComp(PyFloat(40), PyStr("EUR"), "eBay sold"),
      ListingComp(PyFloat(25), PyStr("USD"), "eBay sold"),
      ListingComp(PyFloat(25), PyStr(""), "eBay sold"),
      ListingComp(PyNone, PyStr("USD"), "eBay sold") }

ProfitCompLists == ListsUpTo(ProfitCompKinds, MaxProfitComps)

ItemPrices == { Fraction(0, 1), Fraction(10, 1), Fraction(25, 1) }

ItemCurrencies == { PyStr("EUR"), PyStr("USD") }

MaxScoredComps == 9

\* Prices around 20: four of 13 with four of 27 have a population standard
\* deviation of 7, a median of 20 and so a coefficient of exactly 0.35.
ScoredPrices == {13, 20, 27}

RECURSIVE AscendingUpTo(_, _)
AscendingUpTo(values, n) ==
    IF n = 0 THEN {<<>>}
    ELSE LET shorter == AscendingUpTo(values, n - 1)
         IN  shorter \cup
             { Append(l, x) : l \in { m \in shorter : Len(m) = n - 1 },
                              x \in values }

\* tests/test_valuation_engine.py: the prices of the high confidence test
TestPrices == <<98, 99, 100, 100, 101, 101, 99, 100>>

ScoredPriceLists ==
    { l \in AscendingUpTo(ScoredPrices, MaxScoredComps) :
          \A i \in 1..(Len(l) - 1) : l[i] <= l[i + 1] }
    \cup {TestPrices}

EurComps(prices) ==
    [i \in DOMAIN prices |-> ListingComp(PyFloat(prices[i]), PyStr("EUR"), "eBay sold")]

FuzzyScores ==
    {PyNone} \cup
    { PyFraction(q) : q \in { Fraction(0, 1), Fraction(81, 1), Fraction(82, 1),
                             Fraction(179, 2), Fraction(90, 1), Fraction(95, 1) } }

\* Values of the wrong type for any place of a response.
WrongValues ==
    { PyNone, PyStr(""), PyStr("x"), PyList(<<>>), PyDict(<<>>), PyFloat(1) }

Entry(key, value) == << <<key, value>> >>

PriceOf(value, currency) ==
    PyList(<<PyDict(Entry("__value__", PyStr(value)) \o Entry("@currencyId", PyStr(currency)))>>)

EndedWithSales == Entry("sellingState", PyList(<<PyStr("EndedWithSales")>>))

ApiItem(title_, selling_status) ==
    PyDict(title_ \o Entry("sellingStatus", PyList(<<PyDict(selling_status)>>)))

TitleOf(text) == Entry("title", PyList(<<PyStr(text)>>))

\* The items of a response: well formed, of each selling state, and with one
\* field missing, renamed, empty or of the wrong type.
ApiItems ==
    { ApiItem(TitleOf("x"), Entry("currentPrice", PriceOf(v, c)) \o EndedWithSales) :
          v \in {"10", "25"}, c \in {"EUR"} }
    \cup { ApiItem(TitleOf("x"), Entry("currentPrice", PriceOf("10", "EUR")) \o state) :
              state \in { <<>>,
                          Entry("sellingState", PyList(<<>>)),
                          Entry("sellingState", PyList(<<PyStr("")>>)),
                          Entry("sellingState", PyList(<<PyStr("Active")>>)),
                          Entry("sellingState", PyStr("EndedWithSales")),
                          Entry("sellingState", PyNone) } }
    \cup { ApiItem(TitleOf("x"), price \o EndedWithSales) :
              price \in { <<>>,
                          Entry("price", PriceOf("10", "EUR")),
                          Entry("convertedCurrentPrice", PyList(<<>>))
                              \o Entry("currentPrice", PriceOf("25", "USD")),
                          Entry("convertedCurrentPrice", PriceOf("10", "EUR"))
                              \o Entry("currentPrice", PriceOf("25", "USD")),
                          Entry("currentPrice", PriceOf("10", "EUR").v[1]),
                          Entry("currentPrice", PriceOf("x", "")),
                          Entry("currentPrice", PyList(<<PyDict(<<>>)>>)),
                          Entry("currentPrice", PyStr("x")),
                          Entry("currentPrice", PyFloat(1)) } }
    \cup { ApiItem(title_, Entry("currentPrice", PriceOf("10", "EUR")) \o EndedWithSales) :
              title_ \in { <<>>, Entry("title", PyList(<<>>)), Entry("title", PyNone) } }
    \cup { PyDict(TitleOf("x") \o Entry("sellingStatus", status)) :
              status \in { PyList(<<>>), PyList(<<PyNone>>), PyDict(<<>>), PyStr("x"), PyNone } }
    \cup { PyDict(TitleOf("x")), PyDict(<<>>), PyStr("x"), PyNone }

MaxItems == 2

ApiItemLists == ListsUpTo(ApiItems, MaxItems)

\* A response down to its items, for a value under "item".
BodyOfSearchResult(operation_, search_result) ==
    PyDict(Entry(RootKey(operation_),
                 PyList(<<PyDict(Entry("searchResult", search_result))>>)))

\* The bodies that parse as JSON: well formed down to their list of items, or
\* with a value of the wrong type, a renamed key or no key at one level.
ApiBodies(operation_) ==
    { BodyOfSearchResult(operation_, PyList(<<PyDict(Entry("item", PyList(items)))>>)) :
          items \in ApiItemLists }
    \cup { BodyOfSearchResult(operation_, PyList(<<PyDict(Entry("item", wrong))>>)) :
              wrong \in WrongValues \cup {PyDict(Entry("title", PyStr("x")))} }
    \cup { BodyOfSearchResult(operation_, PyList(<<PyDict(Entry("items", PyList(<<>>)))>>)) }
    \cup { BodyOfSearchResult(operation_, wrong) :
              wrong \in WrongValues \cup { PyList(<<w>>) : w \in WrongValues } }
    \cup { PyDict(Entry(RootKey(operation_), wrong)) :
              wrong \in WrongValues \cup { PyList(<<w>>) : w \in WrongValues } }
    \cup { PyDict(Entry("errorMessage", PyList(<<>>))) }
    \cup WrongValues

\* What the HTTP call can come to: no connection or a timeout, an error
\* status, a body that is no JSON, or a body that is.
ApiResponses(operation_) ==
    { [kind |-> k, body |-> PyNone] : k \in {"ConnectionError", "HTTPError", "JSONDecodeError"} }
    \cup { [kind |-> "json", body |-> b] : b \in ApiBodies(operation_) }

AppIds == { PyNone, PyStr(""), PyStr("app") }

Queries == { "", "limoges" }

Limits == { 0 - 1, 0, 20, 100, 101 }

Ko == <<"K", "o">>

\* Titles, brands and base search texts: none, empty, blank, and words that
\* differ by case, by surrounding whitespace or altogether.
ListingTitles ==
    { None, <<>>, <<" ">>, <<"k", "o">>, <<" ">> \o Ko \o <<" ">>, <<"a", "r", "t">> }

ListingBrands ==
    { None, <<>>, <<" ">>, Ko, <<" ", "k", "o">>, <<"a", "r", "t">> }

ListingBaseTexts ==
    { None, <<>>, <<" ">>, <<"k", "o">>, Ko \o <<" ">>, <<"a", "r", "t">> }

\* The scores of a fuzzy result: none, no number, and numbers around 82 and 90.
ResultScores ==
    { PyNone, PyStr("x") } \cup
    { PyFraction(Fraction(n, d)) :
          <<n, d>> \in { <<0, 1>>, <<81, 1>>, <<82, 1>>, <<89, 1>>, <<179, 2>>, <<90, 1>>,
                         <<95, 1>> } }

FuzzyResults ==
    {<<>>} \cup
    { <<[target |-> t, score |-> sc]>> :
          t \in { None, <<" ">>, <<"k", "o">>, <<"a", "r", "t", " ">> }, sc \in ResultScores }

NoNormalization ==
    [title |-> <<>>, brand |-> None, canonical_query |-> <<>>, fuzzy_term |-> None,
     fuzzy_score |-> PyNone, match_quality |-> "unknown"]

MaxEvaluateItems == 2

\* The items of the responses to evaluate's fetches: two sold ones, one that
\* is still active and one whose sellingStatus is an empty list.
EvaluateItems ==
    { ApiItem(TitleOf("x"), Entry("currentPrice", PriceOf("10", "EUR")) \o EndedWithSales),
      ApiItem(TitleOf("x"), Entry("currentPrice", PriceOf("25", "USD")) \o EndedWithSales),
      ApiItem(TitleOf("x"), Entry("currentPrice", PriceOf("25", "EUR"))
                                \o Entry("sellingState", PyList(<<PyStr("Active")>>))),
      PyDict(TitleOf("x") \o Entry("sellingStatus", PyList(<<>>))) }

EvaluateResponses(operation_) ==
    { [kind |-> "ConnectionError", body |-> PyNone] }
    \cup { [kind |-> "json",
            body |-> BodyOfSearchResult(operation_,
                         PyList(<<PyDict(Entry("item", PyList(items)))>>))] :
               items \in ListsUpTo(EvaluateItems, MaxEvaluateItems) }

EvaluateFuzzyResults ==
    { <<>>,
      <<[target |-> <<"k", "o">>, score |-> PyFloat(95)]>>,
      <<[target |-> <<"k", "o">>, score |-> PyFloat(85)]>> }

MaxProcessCalls == 2

\* The query URLs: without search_text, with an empty one, with a blank one,
\* with a separator, with a word, the word after a space, and a word of
\* more variants than MAX_VARIANTS; some with a page.
QueryUrls ==
    { [search_text |-> None, page |-> <<"2">>],
      [search_text |-> <<>>, page |-> None],
      [search_text |-> <<" ">>, page |-> None],
      [search_text |-> <<"-">>, page |-> <<"2">>],
      [search_text |-> <<"k">>, page |-> None],
      [search_text |-> <<" ", "k">>, page |-> <<"2">>],
      [search_text |-> <<"k", "o", "o">>, page |-> None] }

QueryNames == { None, <<"n">> }

(***************************************************************************)
(* _expand_search_text_variants, called on any phrase                      *)
(***************************************************************************)

ExpandIdle == search_text = None /\ hash_seed = 0 /\ variants = <<>>

MatchIdle ==
    /\ base_search_text = None /\ title = None /\ brand = None
    /\ threshold = DEFAULT_FUZZY_THRESHOLD /\ fuzzy_result = <<>>

NameIdle ==
    /\ display_name = None /\ base_name = None /\ stored_name = None
    /\ decoded_name = <<None, None>> /\ restored_name = None
    /\ redecoded_name = <<None, None>>

ValuationIdle ==
    /\ listings = <<>> /\ summary = EmptySummary("eBay sold")
    /\ item_price = Fraction(0, 1) /\ item_currency = PyNone
    /\ profit = <<PyNone, PyNone, PyNone>> /\ fuzzy_score = PyNone /\ confidence = ""

FetchIdle ==
    /\ operation = "" /\ app_id = PyNone /\ fetch_query = "" /\ limit = 0
    /\ api_response = [kind |-> "", body |-> PyNone]
    /\ requests_sent = <<>> /\ fetched_comps = <<>> /\ raised = ""

EvaluateIdle ==
    /\ normalization = NoNormalization
    /\ fetcher = FALSE /\ sold_limit = 30 /\ active_limit = 10
    /\ fetch_calls = <<>> /\ active_listings = <<>> /\ active_summary = PyNone

\* process_query was not called and nothing is stored
ProcessIdle ==
    /\ db = {} /\ db_before = {}
    /\ query_url = NoQuery /\ query_name = None /\ ENABLE_VARIANTS = TRUE
    /\ variant_queries = <<>>
    /\ is_query_in_db_calls = <<>> /\ add_query_to_db_calls = <<>>
    /\ message = <<>> /\ is_new_query = FALSE
    /\ process_calls = 0

\* db.get_last_timestamp of a query that has none, and a payload without
\* a query id: None
NoTimestamp == 0
NoQueryId == 0
NoEngine == 0

QueryIds == 1 .. 3


NoIteration ==
    [item |-> 0, query_id |-> NoQueryId, last_query_timestamp |-> NoTimestamp,
     branch |-> "", base_search_text |-> None, fuzzy_result |-> <<>>,
     update_last_timestamp |-> NoTimestamp, evaluate |-> FALSE,
     put |-> FALSE, add_item_to_db |-> FALSE]

ClearIdle ==
    /\ items_queue = <<>> /\ new_items_queue = <<>> /\ item_store = {}
    /\ last_timestamps = [q \in QueryIds |-> NoTimestamp]
    /\ add_item_sets_timestamp = FALSE /\ scrapes = 0
    /\ query_id = NoQueryId /\ allowed_countries = <<>> /\ payload_data = <<>>
    /\ iteration = NoIteration

EngineIdle ==
    /\ _valuation_engine = NoEngine
    /\ fetchers_constructed = 0 /\ engines_constructed = 0 /\ engines_returned = {}

InitExpand ==
    /\ pc = "expand"
    /\ search_text \in SearchTexts
    /\ hash_seed \in HashSeeds
    /\ variants = <<>>
    /\ MatchIdle
    /\ NameIdle
    /\ ValuationIdle
    /\ FetchIdle
    /\ EvaluateIdle
    /\ ProcessIdle
    /\ ClearIdle
    /\ EngineIdle

ExpandSearchText ==
    /\ pc = "expand"
    /\ variants' = _expand_search_text_variants(search_text, hash_seed)
    /\ pc' = "expanded"
    /\ UNCHANGED <<search_text, hash_seed, matchVars, nameVars, valuationVars, fetchVars,
                   evaluateVars, processVars, clearVars, engineVars>>

NextExpand == ExpandSearchText

SpecExpand == InitExpand /\ [][NextExpand]_vars

(***************************************************************************)
(* find_best_fuzzy_match, called on any base phrase, title and brand       *)
(***************************************************************************)

InitMatch ==
    /\ pc = "match"
    /\ base_search_text \in BaseTexts
    /\ title \in Titles
    /\ brand \in Brands
    /\ threshold \in Thresholds
    /\ fuzzy_result = <<>>
    /\ ExpandIdle
    /\ NameIdle
    /\ ValuationIdle
    /\ FetchIdle
    /\ EvaluateIdle
    /\ ProcessIdle
    /\ ClearIdle
    /\ EngineIdle

FindBestFuzzyMatch ==
    /\ pc = "match"
    /\ fuzzy_result' = find_best_fuzzy_match(base_search_text, title, brand, threshold)
    /\ pc' = "matched"
    /\ UNCHANGED <<base_search_text, title, brand, threshold, expandVars, nameVars, valuationVars, fetchVars,
                   evaluateVars, processVars, clearVars, engineVars>>

NextMatch == FindBestFuzzyMatch

SpecMatch == InitMatch /\ [][NextMatch]_vars

(***************************************************************************)
(* The stored query name: encoded, decoded, encoded again and decoded      *)
(* again, as process_query stores it and clear_item_queue reads it back    *)
(***************************************************************************)

InitQueryName ==
    /\ pc = "encode"
    /\ display_name \in DisplayNames
    /\ base_name \in BaseNames
    /\ stored_name = None
    /\ decoded_name = <<None, None>>
    /\ restored_name = None
    /\ redecoded_name = <<None, None>>
    /\ ExpandIdle
    /\ MatchIdle
    /\ ValuationIdle
    /\ FetchIdle
    /\ EvaluateIdle
    /\ ProcessIdle
    /\ ClearIdle
    /\ EngineIdle

EncodeQueryName ==
    /\ pc = "encode"
    /\ stored_name' = encode_query_name(display_name, base_name)
    /\ pc' = "decode"
    /\ UNCHANGED <<display_name, base_name, decoded_name, restored_name, redecoded_name,
                   expandVars, matchVars, valuationVars, fetchVars,
                   evaluateVars, processVars, clearVars, engineVars>>

DecodeQueryName ==
    /\ pc = "decode"
    /\ decoded_name' = decode_query_name(stored_name)
    /\ pc' = "encode again"
    /\ UNCHANGED <<display_name, base_name, stored_name, restored_name, redecoded_name,
                   expandVars, matchVars, valuationVars, fetchVars,
                   evaluateVars, processVars, clearVars, engineVars>>

EncodeDecodedName ==
    /\ pc = "encode again"
    /\ restored_name' = encode_query_name(decoded_name[1], decoded_name[2])
    /\ pc' = "decode again"
    /\ UNCHANGED <<display_name, base_name, stored_name, decoded_name, redecoded_name,
                   expandVars, matchVars, valuationVars, fetchVars,
                   evaluateVars, processVars, clearVars, engineVars>>

DecodeRestoredName ==
    /\ pc = "decode again"
    /\ redecoded_name' = decode_query_name(restored_name)
    /\ pc' = "names done"
    /\ UNCHANGED <<display_name, base_name, stored_name, decoded_name, restored_name,
                   expandVars, matchVars, valuationVars, fetchVars,
                   evaluateVars, processVars, clearVars, engineVars>>

NextQueryName ==
    \/ EncodeQueryName
    \/ DecodeQueryName
    \/ EncodeDecodedName
    \/ DecodeRestoredName

SpecQueryName == InitQueryName /\ [][NextQueryName]_vars

(***************************************************************************)
(* _summarize, called by evaluate on the comps a fetch returned            *)
(***************************************************************************)

InitSummarize ==
    /\ pc = "summarize"
    /\ listings \in CompLists
    /\ summary = EmptySummary("eBay sold")
    /\ item_price = Fraction(0, 1) /\ item_currency = PyNone
    /\ profit = <<PyNone, PyNone, PyNone>> /\ fuzzy_score = PyNone /\ confidence = ""
    /\ ExpandIdle
    /\ MatchIdle
    /\ NameIdle
    /\ FetchIdle
    /\ EvaluateIdle
    /\ ProcessIdle
    /\ ClearIdle
    /\ EngineIdle

Summarize ==
    /\ pc = "summarize"
    /\ _summarize(listings, "eBay sold").raised = ""
    /\ summary' = _summarize(listings, "eBay sold").summary
    /\ pc' = "summarized"
    /\ UNCHANGED <<listings, item_price, item_currency, profit, fuzzy_score, confidence,
                   expandVars, matchVars, nameVars, fetchVars,
                   evaluateVars, processVars, clearVars, engineVars>>

SummarizeRaises ==
    /\ pc = "summarize"
    /\ _summarize(listings, "eBay sold").raised # ""
    /\ pc' = _summarize(listings, "eBay sold").raised
    /\ UNCHANGED <<valuationVars, expandVars, matchVars, nameVars, fetchVars,
                   evaluateVars, processVars, clearVars, engineVars>>

NextSummarize == Summarize \/ SummarizeRaises

SpecSummarize == InitSummarize /\ [][NextSummarize]_vars

(***************************************************************************)
(* _estimate_profit, called by evaluate on the sold summary                *)
(***************************************************************************)

InitProfit ==
    /\ pc = "estimate"
    /\ listings \in ProfitCompLists
    /\ summary = _summarize(listings, "eBay sold").summary
    /\ item_price \in ItemPrices
    /\ item_currency \in ItemCurrencies
    /\ profit = <<PyNone, PyNone, PyNone>> /\ fuzzy_score = PyNone /\ confidence = ""
    /\ ExpandIdle
    /\ MatchIdle
    /\ NameIdle
    /\ FetchIdle
    /\ EvaluateIdle
    /\ ProcessIdle
    /\ ClearIdle
    /\ EngineIdle

EstimateProfit ==
    /\ pc = "estimate"
    /\ profit' = _estimate_profit(summary, item_price, item_currency)
    /\ pc' = "estimated"
    /\ UNCHANGED <<listings, summary, item_price, item_currency, fuzzy_score, confidence,
                   expandVars, matchVars, nameVars, fetchVars,
                   evaluateVars, processVars, clearVars, engineVars>>

NextProfit == EstimateProfit

SpecProfit == InitProfit /\ [][NextProfit]_vars

(***************************************************************************)
(* _score_confidence, called by evaluate on the sold summary               *)
(***************************************************************************)

InitConfidence ==
    /\ pc = "score"
    /\ listings \in { EurComps(prices) : prices \in ScoredPriceLists }
    /\ summary = _summarize(listings, "eBay sold").summary
    /\ fuzzy_score \in FuzzyScores
    /\ item_price = Fraction(0, 1) /\ item_currency = PyNone
    /\ profit = <<PyNone, PyNone, PyNone>> /\ confidence = ""
    /\ ExpandIdle
    /\ MatchIdle
    /\ NameIdle
    /\ FetchIdle
    /\ EvaluateIdle
    /\ ProcessIdle
    /\ ClearIdle
    /\ EngineIdle

ScoreConfidence ==
    /\ pc = "score"
    /\ confidence' = _score_confidence(fuzzy_score, summary)
    /\ pc' = "scored"
    /\ UNCHANGED <<listings, summary, item_price, item_currency, profit, fuzzy_score,
                   expandVars, matchVars, nameVars, fetchVars,
                   evaluateVars, processVars, clearVars, engineVars>>

NextConfidence == ScoreConfidence

SpecConfidence == InitConfidence /\ [][NextConfidence]_vars

(***************************************************************************)
(* fetch_sold_comps and fetch_active_listings                              *)
(***************************************************************************)

InitFetch ==
    /\ pc = "fetch"
    /\ operation \in {"sold", "active"}
    /\ app_id \in AppIds
    /\ fetch_query \in Queries
    /\ limit \in Limits
    /\ api_response = [kind |-> "", body |-> PyNone]
    /\ requests_sent = <<>> /\ fetched_comps = <<>> /\ raised = ""
    /\ ExpandIdle
    /\ MatchIdle
    /\ NameIdle
    /\ ValuationIdle
    /\ EvaluateIdle
    /\ ProcessIdle
    /\ ClearIdle
    /\ EngineIdle

\* if not self.app_id or not query: return []
SkipFetch ==
    /\ pc = "fetch"
    /\ ~Truthy(app_id) \/ fetch_query = ""
    /\ fetched_comps' = <<>>
    /\ pc' = "fetched"
    /\ UNCHANGED <<operation, app_id, fetch_query, limit, api_response, requests_sent, raised,
                   expandVars, matchVars, nameVars, valuationVars,
                   evaluateVars, processVars, clearVars, engineVars>>

\* The request sent, and sent once more.
SendRequestAgain ==
    /\ pc = "fetch"
    /\ Truthy(app_id) /\ fetch_query # ""
    /\ requests_sent' = requests_sent \o <<RequestParams(operation, fetch_query, limit),
                                           RequestParams(operation, fetch_query, limit)>>
    /\ pc' = "requested"
    /\ UNCHANGED <<operation, app_id, fetch_query, limit, api_response, fetched_comps, raised,
                   expandVars, matchVars, nameVars, valuationVars,
                   evaluateVars, processVars, clearVars, engineVars>>

\* self.session.get(self.ENDPOINT, params=params, timeout=self.timeout)
SendRequest ==
    /\ pc = "fetch"
    /\ Truthy(app_id) /\ fetch_query # ""
    /\ requests_sent' = Append(requests_sent, RequestParams(operation, fetch_query, limit))
    /\ pc' = "requested"
    /\ UNCHANGED <<operation, app_id, fetch_query, limit, api_response, fetched_comps, raised,
                   expandVars, matchVars, nameVars, valuationVars,
                   evaluateVars, processVars, clearVars, engineVars>>

\* The call comes back and the fetch returns its comps.
ReturnComps ==
    /\ pc = "requested"
    /\ \E response \in ApiResponses(operation) :
           /\ HandleResponse(operation, response).raised = ""
           /\ api_response' = response
           /\ fetched_comps' = HandleResponse(operation, response).value
    /\ pc' = "fetched"
    /\ UNCHANGED <<operation, app_id, fetch_query, limit, requests_sent, raised,
                   expandVars, matchVars, nameVars, valuationVars,
                   evaluateVars, processVars, clearVars, engineVars>>

\* The call comes back and the fetch ends with an exception.
RaiseFromFetch ==
    /\ pc = "requested"
    /\ \E response \in ApiResponses(operation) :
           /\ HandleResponse(operation, response).raised # ""
           /\ api_response' = response
           /\ raised' = HandleResponse(operation, response).raised
    /\ pc' = "fetch raised"
    /\ UNCHANGED <<operation, app_id, fetch_query, limit, requests_sent, fetched_comps,
                   expandVars, matchVars, nameVars, valuationVars,
                   evaluateVars, processVars, clearVars, engineVars>>

NextFetch == SkipFetch \/ SendRequest \/ ReturnComps \/ RaiseFromFetch

SpecFetch == InitFetch /\ [][NextFetch]_vars

(***************************************************************************)
(* ListingNormalizer.normalize, called by evaluate                         *)
(***************************************************************************)

InitNormalize ==
    /\ pc = "normalize"
    /\ title \in ListingTitles
    /\ brand \in ListingBrands
    /\ base_search_text \in ListingBaseTexts
    /\ fuzzy_result \in FuzzyResults
    /\ threshold = DEFAULT_FUZZY_THRESHOLD
    /\ ExpandIdle
    /\ NameIdle
    /\ ValuationIdle
    /\ FetchIdle
    /\ EvaluateIdle
    /\ ProcessIdle
    /\ ClearIdle
    /\ EngineIdle

Normalize ==
    /\ pc = "normalize"
    /\ normalization' = normalize(title, brand, base_search_text, fuzzy_result)
    /\ pc' = "normalized"
    /\ UNCHANGED <<fetcher, sold_limit, active_limit, fetch_calls, active_listings,
                   active_summary, expandVars, matchVars, nameVars, valuationVars, fetchVars,
                   processVars, clearVars, engineVars>>

NextNormalize == Normalize

SpecNormalize == InitNormalize /\ [][NextNormalize]_vars

(***************************************************************************)
(* ValuationEngine.evaluate                                                *)
(***************************************************************************)

InitEvaluate ==
    /\ pc = "evaluate"
    /\ title \in {None, Ko}
    /\ brand \in {None, <<"a", "r", "t">>}
    /\ base_search_text = None
    /\ fuzzy_result \in EvaluateFuzzyResults
    /\ threshold = DEFAULT_FUZZY_THRESHOLD
    /\ item_price = Fraction(25, 1)
    /\ item_currency \in {PyStr("EUR"), PyStr("USD"), PyStr("PLN")}
    /\ fetcher \in BOOLEAN
    /\ app_id \in {PyNone, PyStr("app")}
    /\ fetcher = FALSE => app_id = PyNone
    /\ sold_limit = 30
    /\ active_limit \in {0, 10}
    /\ normalization = NoNormalization
    /\ fetch_calls = <<>> /\ active_listings = <<>> /\ active_summary = PyNone
    /\ listings = <<>> /\ summary = EmptySummary("eBay sold")
    /\ profit = <<PyNone, PyNone, PyNone>> /\ fuzzy_score = PyNone /\ confidence = ""
    /\ operation = "" /\ fetch_query = "" /\ limit = 0
    /\ api_response = [kind |-> "", body |-> PyNone]
    /\ requests_sent = <<>> /\ fetched_comps = <<>> /\ raised = ""
    /\ ExpandIdle
    /\ NameIdle
    /\ ProcessIdle
    /\ ClearIdle
    /\ EngineIdle

\* normalization = self.normalizer.normalize(...), and the test of the fetcher
\* and the canonical query
StartEvaluate ==
    /\ pc = "evaluate"
    /\ normalization' = normalize(title, brand, base_search_text, fuzzy_result)
    /\ pc' = IF ShouldFetch(fetcher, normalization'.canonical_query)
             THEN "fetch sold" ELSE "estimate and score"
    /\ UNCHANGED <<fetcher, sold_limit, active_limit, fetch_calls, active_listings,
                   active_summary, expandVars, matchVars, nameVars, valuationVars, fetchVars,
                   processVars, clearVars, engineVars>>

\* sold_comps = self.fetcher.fetch_sold_comps(...); sold_summary = self._summarize(...)
FetchSold ==
    /\ pc = "fetch sold"
    /\ \E response \in EvaluateResponses("sold") :
       \E call \in {FetchCall("sold", app_id, normalization.canonical_query, sold_limit,
                               response)} :
       \E summarized \in {_summarize(call.value, "eBay sold")} :
               /\ requests_sent' = requests_sent \o call.requests
               /\ IF call.raised # "" \/ summarized.raised # ""
                  THEN /\ raised' = IF call.raised # "" THEN call.raised
                                    ELSE summarized.raised
                       /\ pc' = "evaluate raised"
                       /\ UNCHANGED <<listings, summary>>
                  ELSE /\ listings' = call.value
                       /\ summary' = summarized.summary
                       /\ pc' = IF active_limit > 0 THEN "fetch active"
                                ELSE "estimate and score"
                       /\ UNCHANGED raised
    /\ fetch_calls' = Append(fetch_calls,
           FetchArguments("sold", normalization.canonical_query, sold_limit, item_currency))
    /\ UNCHANGED <<normalization, fetcher, sold_limit, active_limit, active_listings,
                   active_summary, item_price, item_currency, profit, fuzzy_score, confidence,
                   operation, app_id, fetch_query, limit, api_response, fetched_comps,
                   expandVars, matchVars, nameVars, processVars, clearVars, engineVars>>

\* active_listings = self.fetcher.fetch_active_listings(...);
\* active_summary = self._summarize(...)
FetchActive ==
    /\ pc = "fetch active"
    /\ \E response \in EvaluateResponses("active") :
       \E call \in {FetchCall("active", app_id, normalization.canonical_query,
                               active_limit, response)} :
       \E summarized \in {_summarize(call.value, "eBay active")} :
               /\ requests_sent' = requests_sent \o call.requests
               /\ IF call.raised # "" \/ summarized.raised # ""
                  THEN /\ raised' = IF call.raised # "" THEN call.raised
                                    ELSE summarized.raised
                       /\ pc' = "evaluate raised"
                       /\ UNCHANGED <<active_listings, active_summary>>
                  ELSE /\ active_listings' = call.value
                       /\ active_summary' = summarized.summary
                       /\ pc' = "estimate and score"
                       /\ UNCHANGED raised
    /\ fetch_calls' = Append(fetch_calls,
           FetchArguments("active", normalization.canonical_query, active_limit,
                          item_currency))
    /\ UNCHANGED <<normalization, fetcher, sold_limit, active_limit, valuationVars,
                   operation, app_id, fetch_query, limit, api_response, fetched_comps,
                   expandVars, matchVars, nameVars, processVars, clearVars, engineVars>>

\* _estimate_profit, _score_confidence and the return of the ValuationResult
FinishEvaluate ==
    /\ pc = "estimate and score"
    /\ profit' = _estimate_profit(summary, item_price, item_currency)
    /\ fuzzy_score' = normalization.fuzzy_score
    /\ confidence' = _score_confidence(normalization.fuzzy_score, summary)
    /\ pc' = "evaluated"
    /\ UNCHANGED <<listings, summary, item_price, item_currency, evaluateVars, fetchVars,
                   expandVars, matchVars, nameVars, processVars, clearVars, engineVars>>

NextEvaluate == StartEvaluate \/ FetchSold \/ FetchActive \/ FinishEvaluate

SpecEvaluate == InitEvaluate /\ [][NextEvaluate]_vars

(***************************************************************************)
(* core.process_query, called on any query URL, time after time            *)
(***************************************************************************)

InitProcess ==
    /\ pc = "process"
    /\ ExpandIdle
    /\ MatchIdle
    /\ NameIdle
    /\ ValuationIdle
    /\ FetchIdle
    /\ EvaluateIdle
    /\ ProcessIdle
    /\ ClearIdle
    /\ EngineIdle

ProcessQuery ==
    /\ pc \in {"process", "processed"}
    /\ process_calls < MaxProcessCalls
    /\ \E query_ \in QueryUrls, name_ \in QueryNames, enable_variants \in BOOLEAN,
          seed \in HashSeeds :
           /\ query_url' = query_
           /\ query_name' = name_
           /\ ENABLE_VARIANTS' = enable_variants
           /\ hash_seed' = seed
    /\ search_text' = BaseSearchTextOf(query_url')
    /\ display_name' = IF Falsy(query_name') THEN search_text' ELSE query_name'
    /\ base_name' = search_text'
    /\ stored_name' = encode_query_name(display_name', search_text')
    /\ variants' = IF ~Falsy(search_text') /\ ENABLE_VARIANTS'
                   THEN _expand_search_text_variants(search_text', hash_seed')
                   ELSE <<>>
    /\ variant_queries' = VariantQueries(search_text', ENABLE_VARIANTS', variants')
    /\ db_before' = db
    /\ \E done \in {AddNewQueries(variant_queries', stored_name',
                                  [db |-> db, checked |-> <<>>, added |-> <<>>])} :
           /\ db' = done.db
           /\ is_query_in_db_calls' = done.checked
           /\ add_query_to_db_calls' = done.added
           /\ message' = Message(Len(done.added), Len(variant_queries'))
           /\ is_new_query' = (Len(done.added) # 0)
    /\ process_calls' = process_calls + 1
    /\ pc' = "processed"
    /\ UNCHANGED <<decoded_name, restored_name, redecoded_name, matchVars, valuationVars,
                   fetchVars, evaluateVars, clearVars, engineVars>>

NextProcess == ProcessQuery

SpecProcess == InitProcess /\ [][NextProcess]_vars

(***************************************************************************)
(* Properties of _expand_search_text_variants                              *)
(***************************************************************************)

NormalizedForms(list) == { _normalize_text(list[i]) : i \in DOMAIN list }

NoTokens ==
    /\ search_text # None
    /\ Strip(search_text) # <<>>
    /\ Split(_normalize_text(Strip(search_text))) = <<>>

\* The seeds of the phrase: it, its lower case and its transliteration.
Seeds ==
    { Strip(search_text), Lower(Strip(search_text)), unidecode(Strip(search_text)) }

\* C22: a phrase that is not blank but has no tokens gives its seeds only,
\* at most three and the phrase among them, and only an empty or blank
\* phrase gives the empty result.
C22_SeedsWithoutTokens ==
    pc = "expanded" =>
        /\ NoTokens =>
               /\ Len(variants) <= 3
               /\ \A i \in DOMAIN variants : variants[i] \in Seeds
               /\ \E i \in DOMAIN variants : variants[i] = Strip(search_text)
        /\ variants = <<>> => (search_text = None \/ Strip(search_text) = <<>>)

\* C2: no two elements of the result have the same normalized form.
C2_DistinctNormalizedForms ==
    pc = "expanded" =>
        \A i, j \in DOMAIN variants :
            i # j => _normalize_text(variants[i]) # _normalize_text(variants[j])

\* A phrase whose lower-cased seed differs from it and normalizes like it.
C2_Witness ==
    /\ pc = "expanded"
    /\ search_text # None
    /\ Lower(Strip(search_text)) # Strip(search_text)
    /\ unidecode(Strip(search_text)) # Strip(search_text)
    /\ Len(variants) >= 2

(***************************************************************************)
(* Properties of find_best_fuzzy_match                                     *)
(***************************************************************************)

\* The best score of a candidate against the targets of base: <<score>>, or
\* <<>> when the candidate or the target set is empty.
BestScore(candidate, base) ==
    LET targets == IF Falsy(base) THEN <<>> ELSE _build_fuzzy_targets(base)
        normalized_candidate == _normalize_text(candidate)
    IN  IF targets = <<>> \/ normalized_candidate = <<>> THEN <<>>
        ELSE <<extractOne(normalized_candidate, targets)[1].score>>

SeqRange(seq) == { seq[i] : i \in DOMAIN seq }

\* C3: the result is none when neither the title nor the brand has a score
\* that reaches the threshold, and otherwise a result whose score reaches the
\* threshold and is the greater of the title's and the brand's scores; the
\* title "Limoges plate" matches the base "limoges porcelain" at 72.
C3_NoneIffBelowThreshold ==
    pc = "matched" =>
        LET scores == SeqRange(BestScore(title, base_search_text))
                          \cup SeqRange(BestScore(brand, base_search_text))
        IN  /\ IF \A s \in scores : ScoreBelow(s, threshold)
               THEN fuzzy_result = <<>>
               ELSE /\ fuzzy_result # <<>>
                    /\ ~ScoreBelow(fuzzy_result[1].score, threshold)
                    /\ fuzzy_result[1].score \in scores
                    /\ \A s \in scores : ~ScoreLess(fuzzy_result[1].score, s)
            /\ (/\ base_search_text = LimogesPorcelain
                /\ title = LimogesPlate
                /\ threshold = DEFAULT_FUZZY_THRESHOLD)
                   => (fuzzy_result # <<>> /\ fuzzy_result[1].source = "title")

\* The title clears the threshold and the brand scores higher still.
C3_Witness ==
    /\ pc = "matched"
    /\ fuzzy_result # <<>>
    /\ fuzzy_result[1].source = "brand"
    /\ BestScore(title, base_search_text) # <<>>
    /\ ~ScoreBelow(BestScore(title, base_search_text)[1], threshold)
    /\ ScoreLess(BestScore(title, base_search_text)[1], fuzzy_result[1].score)
    /\ threshold = DEFAULT_FUZZY_THRESHOLD

(***************************************************************************)
(* Properties of encode_query_name and decode_query_name                   *)
(***************************************************************************)

\* The stored name has been decoded.
NameDecoded == pc \in {"encode again", "decode again", "names done"}

\* The display name the round trip is to give back: display, or base for an
\* empty display.
DisplayOrBase == IF Falsy(display_name) THEN base_name ELSE display_name

StartsWithBar(s) == s # <<>> /\ Head(s) = "|"

EndsWithBar(s) == s # <<>> /\ s[Len(s)] = "|"

\* Neither surrounding whitespace nor a delimiter inside.
CleanName(s) == s = None \/ (Strip(s) = s /\ FindDelimiter(s) = 0)

\* Not None, and with a character that is not whitespace.
NonBlank(s) == s # None /\ Strip(s) # <<>>

NoBar(s) == s = None \/ \A i \in DOMAIN s : s[i] # "|"

RoundTripName ==
    /\ CleanName(display_name)
    /\ CleanName(base_name)
    /\ ~StartsWithBar(DisplayOrBase)
    /\ ~EndsWithBar(DisplayOrBase)
    /\ ~EndsWithBar(base_name)

C7_ReencodeIdempotent ==
    (pc = "names done" /\ ~Falsy(base_name) /\ ~Falsy(stored_name)) =>
        /\ restored_name = stored_name
        /\ redecoded_name = decoded_name

(***************************************************************************)
(* Properties of _summarize                                                *)
(***************************************************************************)

\* The comps that count: those with a price and a currency.
Priced == { i \in DOMAIN listings :
              listings[i].price # PyNone /\ listings[i].currency # PyNone }

PricedIn(currency) == { i \in Priced : listings[i].currency = currency }

IsSorted(prices) ==
    \A i, j \in DOMAIN prices : i < j => ~ScoreLess(prices[j], prices[i])

\* C8: a summary's sample_size is the length of its prices and the prices
\* ascend; with sample_size 0 the minimum, maximum, median and currency are
\* none and the prices empty; no comps, or no priced comps, never raise.
C8_SummaryShape ==
    /\ pc = "summarized" =>
           /\ summary.sample_size = Len(summary.prices)
           /\ IsSorted(summary.prices)
           /\ summary.sample_size = 0 =>
                  /\ summary.minimum = PyNone /\ summary.maximum = PyNone
                  /\ summary.median = PyNone /\ summary.currency = PyNone
                  /\ summary.prices = <<>>
    /\ (pc # "summarize" /\ Priced = {}) => (pc = "summarized" /\ summary.sample_size = 0)

\* Comps in the list's order whose prices had to be put in order.
C8_Witness ==
    /\ pc = "summarized"
    /\ summary.sample_size >= 3
    /\ \E i, j \in PricedIn(summary.currency) :
           i < j /\ ScoreLess(listings[j].price.v, listings[i].price.v)
    /\ \E i \in DOMAIN listings : listings[i].price = PyNone

\* C9: the summary is over the comps of one currency, the one with the most
\* priced comps and, of several with as many, the one whose first priced comp
\* comes first in the list: its prices are exactly those comps' prices, and
\* its minimum, maximum and median are theirs; a comp without a price or a
\* currency counts for no currency.
C9_LargestCurrencyGroup ==
    (pc = "summarized" /\ Priced # {}) =>
        LET chosen == PricedIn(summary.currency)
            first(c) == CHOOSE i \in PricedIn(c) : \A j \in PricedIn(c) : i <= j
        IN  /\ chosen # {}
            /\ \A i \in Priced :
                   LET other == PricedIn(listings[i].currency)
                   IN  \/ Cardinality(other) < Cardinality(chosen)
                       \/ /\ Cardinality(other) = Cardinality(chosen)
                          /\ first(summary.currency) <= first(listings[i].currency)
            /\ Len(summary.prices) = Cardinality(chosen)
            /\ \A i \in chosen :
                   Cardinality({ k \in DOMAIN summary.prices : summary.prices[k] = listings[i].price.v })
                       = Cardinality({ j \in chosen : listings[j].price = listings[i].price })
            /\ IsSorted(summary.prices)
            /\ summary.minimum = PyFraction(summary.prices[1])
            /\ summary.maximum = PyFraction(summary.prices[Len(summary.prices)])
            /\ summary.median = PyFraction(Median(summary.prices))

\* Two currencies with as many priced comps each; the list begins with a comp
\* of the other currency that has no price.
C9_Witness ==
    /\ pc = "summarized"
    /\ Priced # {}
    /\ listings[1].price = PyNone
    /\ listings[1].currency # summary.currency
    /\ Cardinality(PricedIn(listings[1].currency)) = Cardinality(PricedIn(summary.currency))

(***************************************************************************)
(* Properties of _score_confidence                                         *)
(***************************************************************************)

\* The sum of the squares of the prices' distances from their mean, times
\* the square of their number: sum over x of (n * x - total) ^ 2, for prices
\* that are whole numbers.
SquaredSpread(prices) ==
    LET n == Len(prices)
        total == FractionSum(prices).num
        squares == [i \in DOMAIN prices |->
                       Fraction((n * prices[i].num - total) * (n * prices[i].num - total), 1)]
    IN  FractionSum(squares).num

\* Fewer than 2 prices, or a median above 0 and a population standard
\* deviation of at most 0.35 times the median: with m the median and n the
\* number of prices, 400 * sum (n x - total)^2 <= 49 * n^3 * m^2.
LowVariance(prices) ==
    \/ Len(prices) < 2
    \/ LET n == Len(prices)
           m == Median(prices)
       IN  /\ m.num > 0
           /\ 400 * SquaredSpread(prices) * m.den * m.den <= 49 * n * n * n * m.num * m.num

\* C4: the label is that of the first row that matches: Low under 4 comps;
\* High for a score of at least 90, at least 8 comps and a low variance;
\* Medium for a score from 82 up to 90 or for 4 to 7 comps; Medium for at
\* least 8 comps; else Low; no score counts as 0.
C4_FirstMatchingRow ==
    pc = "scored" =>
        LET n == summary.sample_size
            score == IF fuzzy_score = PyNone THEN Fraction(0, 1) ELSE fuzzy_score.v
            atLeast(k) == score.num >= k * score.den
        IN  confidence =
                CASE n < 4 -> "Low"
                  [] n >= 4 /\ atLeast(90) /\ n >= 8 /\ LowVariance(summary.prices) -> "High"
                  [] n >= 4 /\ ~(atLeast(90) /\ n >= 8 /\ LowVariance(summary.prices))
                         /\ ((atLeast(82) /\ ~atLeast(90)) \/ (4 <= n /\ n <= 7)) -> "Medium"
                  [] OTHER -> IF n >= 8 THEN "Medium" ELSE "Low"

\* Eight or more comps and a score of 95 whose prices vary too much for High.
C4_Witness ==
    /\ pc = "scored"
    /\ summary.sample_size >= 8
    /\ fuzzy_score = PyFraction(Fraction(95, 1))
    /\ ~LowVariance(summary.prices)
    /\ confidence = "Medium"

(***************************************************************************)
(* Properties of _estimate_profit                                          *)
(***************************************************************************)

\* C5, as stated: the profit is none whenever the sold sample_size is 0 or
\* the sold summary's currency differs from the item's, and otherwise it is
\* the median of the sold prices minus the item's price.
C5_NoneWhenCurrencyDiffers ==
    pc = "estimated" =>
        IF summary.sample_size = 0 \/ summary.currency # item_currency
        THEN profit[1] = PyNone
        ELSE profit[1] = PyFraction(FractionSub(Median(summary.prices), item_price))

\* C5: the profit is none whenever the sold sample_size is 0 or the sold
\* summary's currency is not empty and differs from the item's; otherwise,
\* also for a sold summary whose currency is the empty string, it is the
\* median of the sold prices minus the item's price.
C5_NoneWhenKnownCurrencyDiffers ==
    pc = "estimated" =>
        IF \/ summary.sample_size = 0
           \/ summary.currency \notin {PyStr(""), item_currency}
        THEN profit[1] = PyNone
        ELSE profit[1] = PyFraction(FractionSub(Median(summary.prices), item_price))

\* An item of 25 EUR against sold comps in EUR with a median of 40: +15.
C5_Witness ==
    /\ pc = "estimated"
    /\ item_price = Fraction(25, 1) /\ item_currency = PyStr("EUR")
    /\ summary.currency = PyStr("EUR")
    /\ summary.median = PyFloat(40)
    /\ profit = <<PyFloat(15), PyStr("EUR"), PyFraction(Fraction(8, 5))>>

(***************************************************************************)
(* Properties of fetch_sold_comps and fetch_active_listings                *)
(***************************************************************************)

\* C10: whatever the pricing API call comes to (no connection, an error
\* status, a body that is no JSON, JSON with missing, renamed, empty or
\* wrongly typed fields such as an empty sellingStatus list), the fetch
\* returns a list and never raises.
C10_FetchNeverRaises == pc # "fetch raised" /\ raised = ""

\* The items the sold fetch ran over: the value under "item" of the response.
ResponseItems ==
    LET items == Then(_extract_items(_perform_request(api_response), RootKey(operation)), Iterate)
    IN  IF items.raised = "" THEN items.value.v ELSE <<>>

\* The selling state of an item: the first element under "sellingState" of
\* the first element under "sellingStatus", "" for a state that is missing.
SellingStateOf(item) ==
    LET status == item.v[CHOOSE i \in ItemsAt(item, "sellingStatus") : TRUE][2].v[1]
    IN  IF ItemsAt(item, "sellingStatus") = {} \/ ItemsAt(status, "sellingState") = {}
        THEN PyStr("")
        ELSE First(status.v[CHOOSE i \in ItemsAt(status, "sellingState") : TRUE][2]).value

SoldFetchReturned == pc = "fetched" /\ operation = "sold" /\ api_response.kind = "json"

\* C11, as stated: the comps of fetch_sold_comps are those of the items whose
\* selling state is "EndedWithSales"; an item of any other state, a missing
\* or empty one too, gives no comp.
C11_OnlyEndedWithSales ==
    SoldFetchReturned =>
        Len(fetched_comps) =
            Cardinality({ i \in DOMAIN ResponseItems :
                            SellingStateOf(ResponseItems[i]) = PyStr("EndedWithSales") })

\* C11: the comps of fetch_sold_comps are those of the items whose selling
\* state is "EndedWithSales", missing or empty; an item of any other state
\* gives no comp.
C11_EndedWithSalesOrNoState ==
    SoldFetchReturned =>
        Len(fetched_comps) =
            Cardinality({ i \in DOMAIN ResponseItems :
                            \/ SellingStateOf(ResponseItems[i]) = PyStr("EndedWithSales")
                            \/ ~Truthy(SellingStateOf(ResponseItems[i])) })

\* An item that is still active next to an item without a state: the second
\* alone gives a comp.
C11_Witness ==
    /\ SoldFetchReturned
    /\ Len(ResponseItems) = 2
    /\ SellingStateOf(ResponseItems[1]) = PyStr("Active")
    /\ SellingStateOf(ResponseItems[2]) = PyStr("")
    /\ Len(fetched_comps) = 1

MAX_SOLD_COMP_RESULTS == 5

\* C13: sold comps stay within the cap of five: fetch_sold_comps called with
\* a limit of five or more (20, say) sends a page size of five.
C13_SoldPageSizeCapped ==
    \A r \in DOMAIN requests_sent :
        (operation = "sold" /\ limit >= MAX_SOLD_COMP_RESULTS) =>
            requests_sent[r].entriesPerPage = Str(MAX_SOLD_COMP_RESULTS)

(***************************************************************************)
(* Properties of ValuationEngine.evaluate                                  *)
(***************************************************************************)

\* The region of a currency: that of its market, the default for any other.
RegionOf(currency) ==
    CASE currency = PyStr("EUR") -> "EBAY-DE"
      [] currency = PyStr("USD") -> "EBAY-US"
      [] OTHER -> "EBAY-DE"

\* C14: with an empty canonical query evaluate calls no fetch and returns,
\* without raising, a sold summary of sample_size 0, no profit and the label
\* Low; with one that is not empty the sold fetch comes first, the active
\* fetch only after it and only for an active_limit above 0, and both are
\* given the region of the item's currency.
C14_FetchOnlyForAQuery ==
    /\ (pc # "evaluate" /\ normalization.canonical_query = <<>>) =>
           /\ fetch_calls = <<>> /\ requests_sent = <<>>
           /\ pc # "evaluate raised"
           /\ pc = "evaluated" =>
                  /\ summary.sample_size = 0
                  /\ profit[1] = PyNone
                  /\ confidence = "Low"
    /\ Len(fetch_calls) <= 2
    /\ \A c \in DOMAIN fetch_calls :
           /\ fetch_calls[c].fetch = IF c = 1 THEN "sold" ELSE "active"
           /\ fetch_calls[c].fetch = "active" => active_limit > 0
           /\ fetch_calls[c].global_id = RegionOf(item_currency)
           /\ fetch_calls[c].query = normalization.canonical_query
    /\ (pc = "evaluated" /\ fetcher /\ normalization.canonical_query # <<>>) =>
           Len(fetch_calls) = IF active_limit > 0 THEN 2 ELSE 1

\* An evaluation with a fetcher that ends without a fetch, its query being
\* empty.
C14_Witness ==
    /\ pc = "evaluated"
    /\ fetcher /\ Truthy(app_id)
    /\ normalization.canonical_query = <<>>
    /\ fetch_calls = <<>>
    /\ confidence = "Low"

(***************************************************************************)
(* Properties of ListingNormalizer.normalize                               *)
(***************************************************************************)

\* The fuzzy term that the arguments give: the target of the fuzzy result,
\* or failing that the base search text, is not blank.
TermGiven ==
    \/ /\ fuzzy_result # <<>>
       /\ ~Falsy(fuzzy_result[1].target)
       /\ Strip(fuzzy_result[1].target) # <<>>
    \/ /\ ~Falsy(base_search_text)
       /\ Strip(base_search_text) # <<>>

\* C15: the match quality is canonical for a score of 90 or more, likely
\* for one from 82 to 89, approximate for any other score, approximate
\* without a score when there is a fuzzy term, and unknown otherwise.
C15_MatchQualityBands ==
    pc = "normalized" =>
        LET score == normalization.fuzzy_score
        IN  normalization.match_quality =
                IF score # PyNone
                THEN IF ~ScoreLess(score.v, Fraction(90, 1)) THEN "canonical"
                     ELSE IF /\ ~ScoreLess(score.v, Fraction(82, 1))
                             /\ ~ScoreLess(Fraction(89, 1), score.v)
                     THEN "likely"
                     ELSE "approximate"
                ELSE IF TermGiven THEN "approximate"
                ELSE "unknown"

\* A score between 89 and 90 gave the quality approximate.
C15_Witness ==
    /\ pc = "normalized"
    /\ normalization.fuzzy_score = PyFraction(Fraction(179, 2))
    /\ normalization.match_quality = "approximate"

\* The brand part of the canonical query: the trimmed brand.
BrandPart == IF Falsy(brand) THEN <<>> ELSE Strip(brand)

\* The part after the brand: the fuzzy term, or without one the trimmed title.
TermPart ==
    IF ~Falsy(normalization.fuzzy_term) THEN normalization.fuzzy_term
    ELSE IF Falsy(title) THEN <<>> ELSE Strip(title)

\* The canonical query puts the brand first and keeps of two parts equal up
\* to case the first only.
BrandFirstOnce ==
    normalization.canonical_query =
        IF BrandPart = <<>> THEN TermPart
        ELSE IF TermPart = <<>> \/ Lower(TermPart) = Lower(BrandPart) THEN BrandPart
        ELSE BrandPart \o <<" ">> \o TermPart

StoredUrls(db_) == { entry.query : entry \in db_ }

\* The URLs of the expanded variants, in their order.
VariantUrls ==
    [i \in DOMAIN variants |-> [search_text |-> variants[i], order |-> "newest_first"]]

\* The call was made on a URL with a search_text, variants being enabled.
ProcessedWithVariants ==
    pc = "processed" /\ ~Falsy(query_url.search_text) /\ ENABLE_VARIANTS

\* One check per variant, one insertion for each variant URL that was not
\* stored and for no other URL, and no more than MAX_VARIANTS insertions.
ChecksAndInsertions ==
    /\ is_query_in_db_calls = VariantUrls
    /\ \A i \in DOMAIN VariantUrls :
           VariantUrls[i] \notin StoredUrls(db_before) =>
               Cardinality({ a \in DOMAIN add_query_to_db_calls :
                                 add_query_to_db_calls[a][1] = VariantUrls[i] }) = 1
    /\ \A a \in DOMAIN add_query_to_db_calls :
           /\ add_query_to_db_calls[a][1] \notin StoredUrls(db_before)
           /\ \E i \in DOMAIN VariantUrls : add_query_to_db_calls[a][1] = VariantUrls[i]
    /\ Len(add_query_to_db_calls) <= MAX_VARIANTS
    /\ Len(add_query_to_db_calls) =
           Cardinality({ add_query_to_db_calls[a][1] : a \in DOMAIN add_query_to_db_calls })

\* The message ends with the number of variants considered.
ReportsVariantsConsidered ==
    \E i \in DOMAIN message :
        SubSeq(message, i, Len(message)) =
            Str(Len(variant_queries)) \o <<" variants considered).">>

\* C17 as stated: for a URL with a search_text and variants enabled there is
\* one check per expanded variant, one insertion for each variant URL not
\* stored and for no other, at most MAX_VARIANTS insertions, and whenever
\* more than one variant was considered the message reports their number.
C17_MessageAlwaysReportsVariants ==
    ProcessedWithVariants =>
        /\ ChecksAndInsertions
        /\ Len(variant_queries) > 1 => ReportsVariantsConsidered

\* C17: for a URL with a search_text and variants enabled there is one check
\* per expanded variant, one insertion for each variant URL not stored and
\* for no other, at most MAX_VARIANTS insertions, and when more than one
\* variant was considered and at least one was added the message reports
\* the number of variants considered.
C17_ChecksInsertionsAndMessage ==
    ProcessedWithVariants =>
        /\ ChecksAndInsertions
        /\ (Len(variant_queries) > 1 /\ add_query_to_db_calls # <<>>) =>
               ReportsVariantsConsidered

\* Five variants were checked, some of them stored already and the others
\* added.
C17_Witness ==
    /\ ProcessedWithVariants
    /\ Len(is_query_in_db_calls) = MAX_VARIANTS
    /\ Len(add_query_to_db_calls) \in 1..(MAX_VARIANTS - 1)
    /\ ReportsVariantsConsidered

\* The processed forms of the query URL: the URL with the order set and the
\* page removed, and the URLs of its variants.
ProcessedForms ==
    { [search_text |-> IF Falsy(query_url.search_text) THEN None ELSE query_url.search_text,
       order |-> "newest_first"] }
    \cup { variant_queries[i] : i \in DOMAIN variant_queries }

\* C18: process_query returns is_new_query = False, with the message "Query
\* already exists.", only if a processed form of the URL was stored before
\* the call; when none was stored the call stores at least one query and
\* returns True.
C18_FalseOnlyIfStored ==
    pc = "processed" =>
        /\ (~is_new_query \/ message = <<"Query already exists.">>) =>
               ProcessedForms \cap StoredUrls(db_before) # {}
        /\ ProcessedForms \cap StoredUrls(db_before) = {} =>
               /\ add_query_to_db_calls # <<>>
               /\ db # db_before
               /\ is_new_query

(***************************************************************************)
(* Properties of find_best_fuzzy_match: title and brand                    *)
(***************************************************************************)

\* The candidate has a score that is not below the threshold.
Clears(candidate) ==
    /\ BestScore(candidate, base_search_text) # <<>>
    /\ ~ScoreBelow(BestScore(candidate, base_search_text)[1], threshold)

\* C19: when the title and the brand both clear the threshold with equal
\* scores the result is the title's; the result is the brand's only when
\* the brand clears the threshold and the title does not or has a strictly
\* smaller score; and there is at most one result.
C19_TitleWinsTies ==
    pc = "matched" =>
        LET title_score == BestScore(title, base_search_text)
            brand_score == BestScore(brand, base_search_text)
            title_clears == title_score # <<>> /\ ~ScoreBelow(title_score[1], threshold)
            brand_clears == brand_score # <<>> /\ ~ScoreBelow(brand_score[1], threshold)
        IN  /\ Len(fuzzy_result) <= 1
            /\ (/\ title_clears /\ brand_clears
                /\ ~ScoreLess(title_score[1], brand_score[1])
                /\ ~ScoreLess(brand_score[1], title_score[1])) =>
                   /\ fuzzy_result # <<>>
                   /\ fuzzy_result[1].source = "title"
                   /\ fuzzy_result[1].source_text = Strip(title)
            /\ (fuzzy_result # <<>> /\ fuzzy_result[1].source = "brand") =>
                   /\ brand_clears
                   /\ title_clears => ScoreLess(title_score[1], brand_score[1])

\* The title and the brand cleared the threshold with the same score and the
\* title's result was returned.
C19_Witness ==
    /\ pc = "matched"
    /\ Clears(title) /\ Clears(brand)
    /\ BestScore(title, base_search_text) = BestScore(brand, base_search_text)
    /\ title # brand
    /\ threshold = DEFAULT_FUZZY_THRESHOLD
    /\ fuzzy_result # <<>>
    /\ fuzzy_result[1].source = "title"

(***************************************************************************)
(* Properties of the fetches: the requests sent                            *)
(***************************************************************************)

\* The fetch has ended, by a return or by an exception.
FetchEnded == pc \in {"fetched", "fetch raised"}

\* C20: a fetch without credentials or without a query sends no request and
\* returns the empty list; any other fetch sends one request, and has sent
\* exactly one when it ends, whatever the answer: no request is sent again.
C20_OneRequestPerFetch ==
    /\ Len(requests_sent) <= 1
    /\ (~Truthy(app_id) \/ fetch_query = "") =>
           /\ requests_sent = <<>>
           /\ FetchEnded => (pc = "fetched" /\ fetched_comps = <<>>)
    /\ (FetchEnded /\ Truthy(app_id) /\ fetch_query # "") => Len(requests_sent) = 1

\* The one request of a fetch failed and the fetch ended with that one
\* request sent.
C20_Witness ==
    /\ pc = "fetched"
    /\ api_response.kind = "ConnectionError"
    /\ Len(requests_sent) = 1
    /\ fetched_comps = <<>>

\* One evaluation sends one request for each fetch it calls with
\* credentials, none without, and so at most two.
EvaluateRequestsAtMostTwo ==
    /\ Len(requests_sent) <= 2
    /\ Len(requests_sent) = IF Truthy(app_id) THEN Len(fetch_calls) ELSE 0

(***************************************************************************)
(* Properties of _score_confidence: the boundary of three and four comps   *)
(***************************************************************************)

\* C21: fewer than four comps are labelled Low whatever the score, and four
\* comps with a score of 82 or more are labelled Medium or High.
C21_LowBelowFourComps ==
    pc = "scored" =>
        /\ summary.sample_size < 4 => confidence = "Low"
        /\ (/\ summary.sample_size = 4
            /\ fuzzy_score # PyNone
            /\ ~ScoreLess(fuzzy_score.v, Fraction(82, 1))) =>
               confidence \in {"Medium", "High"}

\* Four comps and a score of 82 were labelled Medium.
C21_Witness ==
    /\ pc = "scored"
    /\ summary.sample_size = 4
    /\ fuzzy_score = PyFraction(Fraction(82, 1))
    /\ confidence = "Medium"

(***************************************************************************)
(* clear_item_queue and _get_valuation_engine                              *)
(*                                                                         *)
(* process_items puts a payload (data, query id, query URL, stored name)   *)
(* per scrape; a call of clear_item_queue takes one payload and visits its *)
(* items in reverse.  One action is one iteration of the loop: the branch  *)
(* the item takes, with every store call and queue put of that branch.     *)
(* A call on an empty queue changes nothing and is a stuttering step.      *)
(* The item store and the last timestamps stand for the module db.         *)
(***************************************************************************)

MaxScrapes == 2

\* The items a scrape may return: Item.id, raw_timestamp, title, brand_title
Item1 == [id |-> 1, raw_timestamp |-> 1, title |-> <<"k", "o", "o">>, brand_title |-> None]
Item2 == [id |-> 2, raw_timestamp |-> 2, title |-> <<"a", "r", "t">>, brand_title |-> None]
Item3 == [id |-> 3, raw_timestamp |-> 3, title |-> None, brand_title |-> <<"K", "o", "o">>]

\* The data of a payload: no item, one item, two or three items with the
\* newest first, two with the oldest first, and an item twice
Data ==
    { <<>>, <<Item1>>, <<Item2>>, <<Item2, Item1>>, <<Item3, Item2>>,
      <<Item1, Item2>>, <<Item1, Item1>>, <<Item3, Item2, Item1>> }

\* The queries process_items reads from the store (id, URL, stored name):
\* one whose name holds the base phrase, one without a search text, one
\* with a name from before the encoding
ScrapedQueries ==
    { [query_id |-> 1,
       query_url |-> << [search_text |-> <<"c", "o", "o">>, page |-> None] >>,
       stored_name |-> encode_query_name(<<"n">>, <<"k", "o", "o">>)],
      [query_id |-> 2,
       query_url |-> << [search_text |-> None, page |-> <<"2">>] >>,
       stored_name |-> None],
      [query_id |-> 3,
       query_url |-> << [search_text |-> <<"k", "o", "o">>, page |-> None] >>,
       stored_name |-> <<"n">>] }

\* The payloads: (data, query id, query URL, stored name) of a query, and a
\* payload that is only data
Payloads ==
    { [data |-> d, query_id |-> q.query_id, query_url |-> q.query_url,
       stored_name |-> q.stored_name] : d \in Data, q \in ScrapedQueries }
    \cup { [data |-> <<Item1>>, query_id |-> NoQueryId, query_url |-> <<>>,
            stored_name |-> None] }

\* db.get_allowlist: 0 (no allowlist, the empty sequence here) or a list
Allowlists == { <<>>, << {"FR"} >> }

\* get_user_country: the country code in the response, or "XX"
Countries == { "FR", "DE", "XX" }

\* db.get_last_timestamp
get_last_timestamp(timestamps, query_id_) == timestamps[query_id_]

\* db.update_last_timestamp
update_last_timestamp(timestamps, query_id_, timestamp) ==
    [timestamps EXCEPT ![query_id_] = timestamp]

\* A mutation of db.is_item_in_db_by_id that finds no item.
is_item_in_db_by_id_never(store, id) == FALSE

\* db.is_item_in_db_by_id
is_item_in_db_by_id(store, id) == id \in store

\* db.add_item_to_db: the item store after the insertion
add_item_to_db(store, id) == store \cup {id}

\* The last timestamps after db.add_item_to_db, which may record the
\* timestamp of the item as the last one of its query.
TimestampsAfterAdd(timestamps, sets_timestamp, query_id_, timestamp) ==
    IF sets_timestamp THEN update_last_timestamp(timestamps, query_id_, timestamp)
    ELSE timestamps

\* A mutation of _get_valuation_engine that constructs on every call.
_get_valuation_engine_every_call(engine, constructed) ==
    [engine |-> constructed + 1, fetchers |-> 1, engines |-> 1]

\* _get_valuation_engine: the instance it returns and holds afterwards, and
\* the number of fetchers and engines it constructed; instances are
\* numbered in the order of their construction.
_get_valuation_engine(engine, constructed) ==
    IF engine = NoEngine
    THEN [engine |-> constructed + 1, fetchers |-> 1, engines |-> 1]
    ELSE [engine |-> engine, fetchers |-> 0, engines |-> 0]

\* The base phrase of a payload: the one in the stored name, else the
\* search_text of the query URL
PayloadBaseSearchText(payload) ==
    LET decoded == decode_query_name(payload.stored_name)[2]
    IN  IF decoded = None /\ payload.query_url # <<>>
        THEN BaseSearchTextOf(payload.query_url[1])
        ELSE decoded

\* allowed_countries is None or holds the country ("XX" always passes)
Allowed(user_country) ==
    IF allowed_countries = <<>> THEN TRUE
    ELSE user_country \in allowed_countries[1] \cup {"XX"}

InitClear ==
    /\ pc = "clear"
    /\ ExpandIdle
    /\ MatchIdle
    /\ NameIdle
    /\ ValuationIdle
    /\ FetchIdle
    /\ EvaluateIdle
    /\ ProcessIdle
    /\ items_queue = <<>> /\ new_items_queue = <<>> /\ item_store = {}
    /\ last_timestamps = [q \in QueryIds |-> NoTimestamp]
    /\ add_item_sets_timestamp \in BOOLEAN
    /\ scrapes = 0
    /\ query_id = NoQueryId /\ allowed_countries = <<>> /\ payload_data = <<>>
    /\ iteration = NoIteration
    /\ EngineIdle

\* process_items (or another producer): one payload is put.  Only
\* clear_item_queue reads the queue, in the order of the puts, so that a put
\* is taken here to happen just before the call that takes the payload.
PutPayload ==
    /\ pc = "clear"
    /\ items_queue = <<>>
    /\ scrapes < MaxScrapes
    /\ \E payload \in Payloads : items_queue' = Append(items_queue, payload)
    /\ scrapes' = scrapes + 1
    /\ UNCHANGED <<pc, new_items_queue, item_store, last_timestamps, add_item_sets_timestamp,
                   query_id, allowed_countries, payload_data, iteration, engineVars,
                   expandVars, matchVars, nameVars, valuationVars, fetchVars, evaluateVars,
                   processVars>>

\* clear_item_queue takes a payload without a query id: a warning, return
DropPayload ==
    /\ pc = "clear"
    /\ items_queue # <<>>
    /\ Head(items_queue).query_id = NoQueryId
    /\ items_queue' = Tail(items_queue)
    /\ UNCHANGED <<pc, new_items_queue, item_store, last_timestamps, add_item_sets_timestamp,
                   scrapes, query_id, allowed_countries, payload_data, iteration, engineVars,
                   expandVars, matchVars, nameVars, valuationVars, fetchVars, evaluateVars,
                   processVars>>

\* clear_item_queue takes a payload, finds the base phrase and reads the
\* allowlist; the loop is over reversed(data), and the call returns at once
\* when there is no item
TakePayload ==
    /\ pc = "clear"
    /\ items_queue # <<>>
    /\ Head(items_queue).query_id # NoQueryId
    /\ items_queue' = Tail(items_queue)
    /\ IF Head(items_queue).data = <<>>
       THEN UNCHANGED <<pc, query_id, base_search_text, allowed_countries, payload_data>>
       ELSE /\ query_id' = Head(items_queue).query_id
            /\ base_search_text' = PayloadBaseSearchText(Head(items_queue))
            /\ allowed_countries' \in Allowlists
            /\ payload_data' = Reverse(Head(items_queue).data)
            /\ pc' = "clearing"
    /\ UNCHANGED <<new_items_queue, item_store, last_timestamps, add_item_sets_timestamp,
                   scrapes, iteration, engineVars, title, brand, threshold, fuzzy_result,
                   expandVars, nameVars, valuationVars, fetchVars, evaluateVars,
                   processVars>>

\* A mutation of the first branch that passes only a strictly older item.
IsStrictlyOld(item, last_query_timestamp) ==
    last_query_timestamp # NoTimestamp /\ last_query_timestamp > item.raw_timestamp

\* The condition of the first branch: the item is not newer than the
\* last timestamp of the query
IsOld(item, last_query_timestamp) ==
    last_query_timestamp # NoTimestamp /\ last_query_timestamp >= item.raw_timestamp

\* The call returns (or ends with an exception): its locals are gone
Returns ==
    /\ pc' = "clear"
    /\ query_id' = NoQueryId
    /\ base_search_text' = None
    /\ allowed_countries' = <<>>
    /\ payload_data' = <<>>

\* The loop goes on to the next item, or the call returns
NextItem ==
    IF Tail(payload_data) = <<>> THEN Returns
    ELSE /\ payload_data' = Tail(payload_data)
         /\ pc' = "clearing"
         /\ UNCHANGED <<query_id, base_search_text, allowed_countries>>

\* What an iteration did: the item and the query, the last timestamp read,
\* the base phrase and the result of the match (None when none was made),
\* the timestamp passed to db.update_last_timestamp (or none), and whether
\* evaluate, new_items_queue.put and db.add_item_to_db were called
Iteration(item, branch, result, update, called_evaluate, called_put) ==
    [item |-> item.id, query_id |-> query_id,
     last_query_timestamp |-> get_last_timestamp(last_timestamps, query_id),
     branch |-> branch,
     base_search_text |-> base_search_text,
     fuzzy_result |-> result,
     update_last_timestamp |-> IF update THEN item.raw_timestamp ELSE NoTimestamp,
     evaluate |-> called_evaluate, put |-> called_put, add_item_to_db |-> called_put]

\* The item is not newer than the last timestamp: pass
PassOldItem ==
    /\ pc = "clearing"
    /\ IsOld(Head(payload_data), get_last_timestamp(last_timestamps, query_id))
    /\ iteration' = Iteration(Head(payload_data), "old", <<>>, FALSE, FALSE, FALSE)
    /\ NextItem
    /\ UNCHANGED <<items_queue, new_items_queue, item_store, last_timestamps,
                   add_item_sets_timestamp, scrapes, engineVars,
                   title, brand, threshold, fuzzy_result,
                   expandVars, nameVars, valuationVars, fetchVars, evaluateVars,
                   processVars>>

\* The item is in the store already: only the last timestamp is updated
UpdateForStoredItem ==
    /\ pc = "clearing"
    /\ ~IsOld(Head(payload_data), get_last_timestamp(last_timestamps, query_id))
    /\ is_item_in_db_by_id(item_store, Head(payload_data).id)
    /\ last_timestamps' =
           update_last_timestamp(last_timestamps, query_id, Head(payload_data).raw_timestamp)
    /\ iteration' = Iteration(Head(payload_data), "stored", <<>>, TRUE, FALSE, FALSE)
    /\ NextItem
    /\ UNCHANGED <<items_queue, new_items_queue, item_store,
                   add_item_sets_timestamp, scrapes, engineVars,
                   title, brand, threshold, fuzzy_result,
                   expandVars, nameVars, valuationVars, fetchVars, evaluateVars,
                   processVars>>

\* The seller's country is not in the allowlist: only the last timestamp
\* is updated
UpdateForCountry ==
    /\ pc = "clearing"
    /\ ~IsOld(Head(payload_data), get_last_timestamp(last_timestamps, query_id))
    /\ ~is_item_in_db_by_id(item_store, Head(payload_data).id)
    /\ allowed_countries # <<>>
    /\ \E user_country \in Countries : ~Allowed(user_country)
    /\ last_timestamps' =
           update_last_timestamp(last_timestamps, query_id, Head(payload_data).raw_timestamp)
    /\ iteration' = Iteration(Head(payload_data), "country", <<>>, TRUE, FALSE, FALSE)
    /\ NextItem
    /\ UNCHANGED <<items_queue, new_items_queue, item_store,
                   add_item_sets_timestamp, scrapes, engineVars,
                   title, brand, threshold, fuzzy_result,
                   expandVars, nameVars, valuationVars, fetchVars, evaluateVars,
                   processVars>>

\* get_user_country raises (the request fails, the response has no user):
\* the call of clear_item_queue ends with the exception
GetUserCountryRaises ==
    /\ pc = "clearing"
    /\ ~IsOld(Head(payload_data), get_last_timestamp(last_timestamps, query_id))
    /\ ~is_item_in_db_by_id(item_store, Head(payload_data).id)
    /\ allowed_countries # <<>>
    /\ iteration' = Iteration(Head(payload_data), "country raised", <<>>, FALSE, FALSE, FALSE)
    /\ Returns
    /\ UNCHANGED <<items_queue, new_items_queue, item_store, last_timestamps,
                   add_item_sets_timestamp, scrapes, engineVars,
                   title, brand, threshold, fuzzy_result,
                   expandVars, nameVars, valuationVars, fetchVars, evaluateVars,
                   processVars>>

\* The item reaches the last branch (it is new, not stored, and its
\* seller's country passes) and is matched against the base phrase of the
\* query, if there is one; fuzzy_result stays None if there is none
MatchItem ==
    /\ pc = "clearing"
    /\ ~IsOld(Head(payload_data), get_last_timestamp(last_timestamps, query_id))
    /\ ~is_item_in_db_by_id(item_store, Head(payload_data).id)
    /\ \E user_country \in Countries : Allowed(user_country)
    /\ title' = Head(payload_data).title
    /\ brand' = Head(payload_data).brand_title
    /\ fuzzy_result' = IF Falsy(base_search_text) THEN <<>>
                       ELSE find_best_fuzzy_match(base_search_text, title', brand',
                                                  DEFAULT_FUZZY_THRESHOLD)
    /\ pc' = "matched"
    /\ UNCHANGED <<base_search_text, threshold, clearVars, engineVars,
                   expandVars, nameVars, valuationVars, fetchVars, evaluateVars,
                   processVars>>

\* The match is over: the locals title, brand and fuzzy_result are gone
EndMatch ==
    /\ title' = None
    /\ brand' = None
    /\ fuzzy_result' = <<>>

\* A mutation of the branch of an item without a match: the item is
\* notified and stored all the same.
NotifyForNoMatch ==
    /\ pc = "matched"
    /\ ~Falsy(base_search_text)
    /\ fuzzy_result = <<>>
    /\ new_items_queue' =
           Append(new_items_queue, [item |-> Head(payload_data).id, query_id |-> query_id])
    /\ item_store' = add_item_to_db(item_store, Head(payload_data).id)
    /\ last_timestamps' =
           update_last_timestamp(last_timestamps, query_id, Head(payload_data).raw_timestamp)
    /\ iteration' = Iteration(Head(payload_data), "no match", fuzzy_result, TRUE, FALSE, TRUE)
    /\ EndMatch
    /\ NextItem
    /\ UNCHANGED <<items_queue, add_item_sets_timestamp, scrapes, engineVars, threshold,
                   expandVars, nameVars, valuationVars, fetchVars, evaluateVars,
                   processVars>>

\* The query has a base phrase and the item does not match it: only the
\* last timestamp is updated, and the loop continues
UpdateForNoMatch ==
    /\ pc = "matched"
    /\ ~Falsy(base_search_text)
    /\ fuzzy_result = <<>>
    /\ last_timestamps' =
           update_last_timestamp(last_timestamps, query_id, Head(payload_data).raw_timestamp)
    /\ iteration' = Iteration(Head(payload_data), "no match", fuzzy_result, TRUE, FALSE, FALSE)
    /\ EndMatch
    /\ NextItem
    /\ UNCHANGED <<items_queue, new_items_queue, item_store,
                   add_item_sets_timestamp, scrapes, engineVars, threshold,
                   expandVars, nameVars, valuationVars, fetchVars, evaluateVars,
                   processVars>>

\* The item matched, or the query has no base phrase: the engine is
\* fetched and evaluate is called
Evaluates ==
    /\ pc = "matched"
    /\ ~Falsy(base_search_text) => fuzzy_result # <<>>
    /\ \E got \in {_get_valuation_engine(_valuation_engine, engines_constructed)} :
           /\ _valuation_engine' = got.engine
           /\ fetchers_constructed' = fetchers_constructed + got.fetchers
           /\ engines_constructed' = engines_constructed + got.engines
           /\ engines_returned' = engines_returned \cup {got.engine}

\* evaluate returns: the notification is put and the item is added to the
\* store
NotifyItem ==
    /\ Evaluates
    /\ new_items_queue' =
           Append(new_items_queue, [item |-> Head(payload_data).id, query_id |-> query_id])
    /\ item_store' = add_item_to_db(item_store, Head(payload_data).id)
    /\ last_timestamps' = TimestampsAfterAdd(last_timestamps, add_item_sets_timestamp,
                                             query_id, Head(payload_data).raw_timestamp)
    /\ iteration' = Iteration(Head(payload_data), "notified", fuzzy_result, FALSE, TRUE, TRUE)
    /\ EndMatch
    /\ NextItem
    /\ UNCHANGED <<items_queue, add_item_sets_timestamp, scrapes, threshold,
                   expandVars, nameVars, valuationVars, fetchVars, evaluateVars,
                   processVars>>

\* evaluate raises: the call of clear_item_queue ends with the exception
EvaluateRaises ==
    /\ Evaluates
    /\ iteration' =
           Iteration(Head(payload_data), "evaluate raised", fuzzy_result, FALSE, TRUE, FALSE)
    /\ EndMatch
    /\ Returns
    /\ UNCHANGED <<items_queue, new_items_queue, item_store, last_timestamps,
                   add_item_sets_timestamp, scrapes, threshold,
                   expandVars, nameVars, valuationVars, fetchVars, evaluateVars,
                   processVars>>

NextClear ==
    \/ PutPayload
    \/ DropPayload
    \/ TakePayload
    \/ PassOldItem
    \/ UpdateForStoredItem
    \/ UpdateForCountry
    \/ GetUserCountryRaises
    \/ MatchItem
    \/ UpdateForNoMatch
    \/ NotifyItem
    \/ EvaluateRaises

SpecClear == InitClear /\ [][NextClear]_vars

(***************************************************************************)
(* Properties of clear_item_queue and _get_valuation_engine                *)
(***************************************************************************)

\* The item was matched against the base phrase of its query and
\* find_best_fuzzy_match returned None
NoMatchPending == pc = "matched" /\ ~Falsy(base_search_text) /\ fuzzy_result = <<>>

\* The step only sets the last timestamp of the query to the timestamp of
\* the item, a later one, and goes on to the next item if there is one
OnlyTimestampAdvances ==
    /\ new_items_queue' = new_items_queue
    /\ item_store' = item_store
    /\ engineVars' = engineVars
    /\ ~iteration'.evaluate
    /\ last_timestamps' =
           [last_timestamps EXCEPT ![query_id] = Head(payload_data).raw_timestamp]
    /\ last_timestamps'[query_id] > last_timestamps[query_id]
    /\ IF Tail(payload_data) = <<>> THEN pc' = "clear"
       ELSE pc' = "clearing" /\ payload_data' = Tail(payload_data)

\* C23: an item that does not match the base phrase of its query is not
\* evaluated, notified or stored: the step only advances the last timestamp
\* of the query and the loop goes on; and a notification is only put for an
\* item that matched or whose query has no base phrase.
C23_NoMatchIsSkipped ==
    [][/\ NoMatchPending => OnlyTimestampAdvances
       /\ new_items_queue' # new_items_queue =>
              /\ pc = "matched"
              /\ Falsy(base_search_text) \/ fuzzy_result # <<>>]_vars

C23_Witness ==
    /\ iteration.branch = "no match"
    /\ ~Falsy(iteration.base_search_text)
    /\ iteration.update_last_timestamp > iteration.last_query_timestamp
    /\ pc = "clearing"
    /\ new_items_queue # <<>>

\* C24: at most one fetcher and one engine were constructed, and every call
\* of _get_valuation_engine returned the one instance the module holds.
C24_OneEngine ==
    /\ fetchers_constructed <= 1
    /\ engines_constructed <= 1
    /\ engines_returned \subseteq {_valuation_engine}
    /\ engines_returned # {} => _valuation_engine # NoEngine

\* two items were evaluated, in two calls of clear_item_queue
C24_Witness ==
    /\ Len(new_items_queue) >= 2
    /\ new_items_queue[1].query_id # new_items_queue[2].query_id
    /\ engines_constructed = 1
    /\ engines_returned = {_valuation_engine}

\* C25: no item id is notified twice, and a step puts a notification for
\* an item exactly when it adds that item to the store.
C25_NotifiedOnceWhenAdded ==
    /\ [](\A i, j \in DOMAIN new_items_queue :
              new_items_queue[i].item = new_items_queue[j].item => i = j)
    /\ [][/\ new_items_queue' # new_items_queue <=> item_store' # item_store
          /\ new_items_queue' # new_items_queue =>
                 \E id \in item_store' \ item_store :
                     /\ item_store' = item_store \cup {id}
                     /\ new_items_queue' =
                            Append(new_items_queue, [item |-> id, query_id |-> query_id])]_vars

\* an item notified for one query was met again in a payload of another
\* query, after a second notification
C25_Witness ==
    /\ iteration.branch = "stored"
    /\ \E i \in DOMAIN new_items_queue :
           /\ new_items_queue[i].item = iteration.item
           /\ new_items_queue[i].query_id # iteration.query_id
    /\ Len(new_items_queue) >= 2

\* C26: a step that changes a last timestamp sets the one of the query of
\* the payload to the timestamp of the item, which is greater than the one
\* it had; and an item that is not newer than the last timestamp of its
\* query changes neither the store nor the notifications.
C26_TimestampOnlyAdvances ==
    [][/\ \A q \in QueryIds :
              last_timestamps'[q] # last_timestamps[q] =>
                  /\ q = query_id
                  /\ last_timestamps'[q] = Head(payload_data).raw_timestamp
                  /\ last_timestamps'[q] > last_timestamps[q]
       /\ (/\ pc = "clearing"
           /\ last_timestamps[query_id] # NoTimestamp
           /\ Head(payload_data).raw_timestamp <= last_timestamps[query_id]) =>
              /\ last_timestamps' = last_timestamps
              /\ item_store' = item_store
              /\ new_items_queue' = new_items_queue
              /\ iteration'.update_last_timestamp = NoTimestamp]_vars

\* an update of a last timestamp that was not None, then an older item
C26_Witness ==
    /\ iteration.branch = "old"
    /\ iteration.last_query_timestamp >= 2
    /\ \E q \in QueryIds : q # iteration.query_id /\ last_timestamps[q] # NoTimestamp
    /\ item_store # {}

(***************************************************************************)
(* Properties of process_query called again                                *)
(***************************************************************************)

\* The step is a call of process_query with the URL, the name and the
\* configuration of the call before it, which inserted at least one query
RepeatedCall ==
    /\ pc = "processed"
    /\ add_query_to_db_calls # <<>>
    /\ process_calls' = process_calls + 1
    /\ query_url' = query_url
    /\ query_name' = query_name
    /\ ENABLE_VARIANTS' = ENABLE_VARIANTS

\* The call inserts nothing and answers that the query exists
AlreadyExists ==
    /\ db' = db
    /\ add_query_to_db_calls' = <<>>
    /\ message' = <<"Query already exists.">>
    /\ is_new_query' = FALSE

\* C27: a second call of process_query with the same URL and name inserts
\* nothing, leaves the store unchanged and returns ("Query already exists.",
\* False), whatever the first call inserted.
C27_SecondCallInsertsNothing == [][RepeatedCall => AlreadyExists]_vars

\* The same, for two calls that iterate the sets of word variants in the
\* same order (two calls of one run of the interpreter).
SecondCallOfSameRun == [][RepeatedCall /\ hash_seed' = hash_seed => AlreadyExists]_vars

====
